---- MODULE Spec2Model ----
(***************************************************************************)
(* The Admin console of the KG tourism site: the create-post and           *)
(* replace-video upload sessions (XMLHttpRequest), the update-post and     *)
(* delete-post calls (fetch), the list read, and component teardown.       *)
(*                                                                         *)
(* Two revisions of the component are in the repository and both are       *)
(* modelled; `rev` says which one is running:                              *)
(*   "plain"  src/src/components/Admin.tsx (one `error` banner)            *)
(*   "toast"  src/unnamed/part_000 and part_001 (toasts, per-field errors, *)
(*            create drawer, confirm dialog); the two files have the same  *)
(*            handlers line for line.                                      *)
(*                                                                         *)
(* Conventions.                                                            *)
(*  - A nullable JS value is a sequence of length <= 1: <<>> is null or    *)
(*    undefined, <<v>> is the value v.                                     *)
(*  - User-typed text is a sequence of one-character strings, so that      *)
(*    String.prototype.trim is computed and not assumed.                   *)
(*  - A displayed message is a sequence of parts, T(s) a literal text and  *)
(*    N(n) a number rendered in decimal, as the template literals of the   *)
(*    source build them.                                                   *)
(*  - A promise continuation is a microtask: it runs right after the       *)
(*    handler of the event that settled the promise, before any other      *)
(*    event, and is part of that event's action.                           *)
(*  - The messages the source writes in Russian are written in English.    *)
(*  - Controls are enabled as their `disabled` attribute and their         *)
(*    conditional rendering say; stacking of overlays is not relied on.    *)
(***************************************************************************)
EXTENDS Integers, Sequences, FiniteSets, TLC

\* ------------------------------------------------------------------ bounds

\* Number of chunks a transfer is reported in (upload.onprogress events).
Chunks == 2
\* Number of list reads that may be pending at once outside a handler
\* (the read started on mount, the Reload button).
MaxLoads == 1
\* Number of handler invocations (submit, save, delete, reload) in a run.
MaxCalls == 1

\* --------------------------------------------------------------- messages

T(s) == [s |-> s, n |-> 0]
N(n) == [s |-> "#", n |-> n]
NoMsg == <<>>

\* ----------------------------------------------------------------- strings

IsSpace(c) == c = " "

RECURSIVE TrimStart(_)
TrimStart(s) ==
  IF s # <<>> /\ IsSpace(Head(s)) THEN TrimStart(Tail(s)) ELSE s

RECURSIVE TrimEnd(_)
TrimEnd(s) ==
  IF s # <<>> /\ IsSpace(s[Len(s)]) THEN TrimEnd(SubSeq(s, 1, Len(s) - 1)) ELSE s

\* String.prototype.trim
Trim(s) == TrimEnd(TrimStart(s))

\* s.replace(/\/$/, "")
stripTrailingSlash(s) ==
  IF s # <<>> /\ s[Len(s)] = "/" THEN SubSeq(s, 1, Len(s) - 1) ELSE s

\* ------------------------------------------------------------- file sizes

KiB == 1024
units == <<"B", "KB", "MB", "GB">>

RECURSIVE Pow1024(_)
Pow1024(i) == IF i = 0 THEN 1 ELSE KiB * Pow1024(i - 1)

\* The index the while loop of humanFileSize stops at: n is divided by 1024
\* while n >= 1024 and i < units.length - 1.
RECURSIVE unitIndex(_, _)
unitIndex(bytes, i) ==
  IF bytes \div Pow1024(i) >= KiB /\ i < Len(units) - 1
    THEN unitIndex(bytes, i + 1)
    ELSE i

\* Number.prototype.toFixed(1) of bytes / p, p a power of two (the quotient is
\* exact in a double): the tenths, rounded half up.
Tenths(bytes, p) ==
  (bytes \div p) * 10 + ((bytes % p) * 20 + p) \div (2 * p)

\* humanFileSize with no decimal place in any unit: n.toFixed(0).
humanFileSize_noDecimals(bytes) ==
  LET i == unitIndex(bytes, 0)
      p == Pow1024(i)
  IN  <<N((2 * bytes + p) \div (2 * p)), T(" "), T(units[i + 1])>>

\* humanFileSize: `${n.toFixed(i === 0 ? 0 : 1)} ${units[i]}`
humanFileSize(bytes) ==
  LET i == unitIndex(bytes, 0)
      p == Pow1024(i)
  IN  IF i = 0
        THEN <<N(bytes), T(" "), T(units[i + 1])>>
        ELSE <<N(Tenths(bytes, p) \div 10), T("."), N(Tenths(bytes, p) % 10),
               T(" "), T(units[i + 1])>>

\* ------------------------------------------------------------------ files

allowed == {"video/mp4", "video/webm", "video/quicktime"}
MAX == 200 * 1024 * 1024

\* validateVideoFile without its size check.
validateVideoFile_noSizeCheck(f) ==
  IF f = <<>> THEN NoMsg
  ELSE IF f[1].type \notin allowed
    THEN <<T("Unsupported format: "),
           T(IF f[1].type = "" THEN "unknown" ELSE f[1].type),
           T(". Allowed: mp4, webm, mov")>>
  ELSE NoMsg

\* validateVideoFile rejecting a file whose size equals the limit.
validateVideoFile_limitExcluded(f) ==
  IF f = <<>> THEN NoMsg
  ELSE IF f[1].type \notin allowed
    THEN <<T("Unsupported format: "),
           T(IF f[1].type = "" THEN "unknown" ELSE f[1].type),
           T(". Allowed: mp4, webm, mov")>>
  ELSE IF f[1].size >= MAX
    THEN <<T("File too large: ")>> \o humanFileSize(f[1].size)
           \o <<T(". Max: ")>> \o humanFileSize(MAX)
  ELSE NoMsg

\* validateVideoFile(f): "" for no file or an accepted one, else a message.
validateVideoFile(f) ==
  IF f = <<>> THEN NoMsg
  ELSE IF f[1].type \notin allowed
    THEN <<T("Unsupported format: "),
           T(IF f[1].type = "" THEN "unknown" ELSE f[1].type),
           T(". Allowed: mp4, webm, mov")>>
  ELSE IF f[1].size > MAX
    THEN <<T("File too large: ")>> \o humanFileSize(f[1].size)
           \o <<T(". Max: ")>> \o humanFileSize(MAX)
  ELSE NoMsg

\* The files the user may pick: in the create form, in the edit view.
OkFile == [type |-> "video/mp4", size |-> 10 * 1024 * 1024]
BadTypeFile == [type |-> "", size |-> 1536]
TooBigFile == [type |-> "video/quicktime", size |-> MAX + 1]
CreateFiles == {OkFile, TooBigFile}
EditFiles == {OkFile, BadTypeFile}

\* -------------------------------------------------------------- responses

\* The response texts the worker (or a proxy in front of it) may send.
ResponseTexts ==
  {"", "{}", "{\"error\":\"role check failed\"}", "{\"error\":\"\"}",
   "{\"file\":\"clip2.mp4\"}", "<html>"}

\* The HTTP statuses a response may carry.
Statuses == {200, 500}

\* A parsed body: `null` (JS null), else an object with optional string
\* fields `error` and `file`.
Obj(e, f) == [null |-> FALSE, error |-> e, file |-> f]
NullBody == [null |-> TRUE, error |-> <<>>, file |-> <<>>]

\* Whether JSON.parse(text) returns (it throws otherwise).
JSONparses(text) == text \in {"{}", "{\"error\":\"role check failed\"}",
                              "{\"error\":\"\"}", "{\"file\":\"clip2.mp4\"}"}

\* JSON.parse(text), for a text that parses.
JSONparse(text) ==
  CASE text = "{\"error\":\"role check failed\"}" ->
         Obj(<< <<T("role check failed")>> >>, <<>>)
    [] text = "{\"error\":\"\"}" -> Obj(<< NoMsg >>, <<>>)
    [] text = "{\"file\":\"clip2.mp4\"}" -> Obj(<<>>, << "clip2.mp4" >>)
    [] OTHER -> Obj(<<>>, <<>>)

\* body?.error, as the truthy value `||` tests: the message, or <<>> when the
\* body is null, has no `error`, or its `error` is the empty string.
ErrorOf(body) ==
  IF body.null \/ body.error = <<>> THEN NoMsg ELSE body.error[1]

\* xhr.onload: the body is the parsed text, null for an empty text, and
\* { error: "Invalid JSON from server" } when the text does not parse; ok is
\* decided by the status alone.
onloadResult(status, responseText) ==
  [ok |-> status >= 200 /\ status < 300,
   status |-> status,
   body |-> IF responseText = "" THEN NullBody
            ELSE IF JSONparses(responseText) THEN JSONparse(responseText)
            ELSE Obj(<< <<T("Invalid JSON from server")>> >>, <<>>)]

\* xhr.onerror and xhr.onabort
onerrorResult == [ok |-> FALSE, status |-> 0,
                  body |-> Obj(<< <<T("Network error")>> >>, <<>>)]
onabortResult == [ok |-> FALSE, status |-> 0,
                  body |-> Obj(<< <<T("Upload aborted")>> >>, <<>>)]

\* result.body?.error || `${op} failed (status ${result.status})`
FailureMessage(op, result) ==
  IF ErrorOf(result.body) # NoMsg THEN ErrorOf(result.body)
  ELSE <<T(op), T(" failed (status "), N(result.status), T(")")>>

\* await res.json().catch(() => ({})) of the fetch calls: the parsed body, or
\* {} when the text is empty or does not parse.
fetchJson(responseText) ==
  IF JSONparses(responseText) THEN JSONparse(responseText) ELSE Obj(<<>>, <<>>)

\* e?.message || fallback
MessageOr(msg, fallback) == IF msg # NoMsg THEN msg ELSE <<T(fallback)>>

\* Pct counting what is left to send instead of what was sent.
Pct_remaining(loaded, total) == (200 * (total - loaded) + total) \div (2 * total)

\* Math.round((loaded / total) * 100), for 0 <= loaded <= total
Pct(loaded, total) == (200 * loaded + total) \div (2 * total)

\* ------------------------------------------------------------------ state

VARIABLES
  rev,              \* which revision of the component runs: "plain" or "toast"
  guardPc,          \* ProtectedRoute: "session" while its getSession() is awaited
  guardLoading, authed,           \* ProtectedRoute: its two states
  notified,         \* the last auth-state-change notification: "none", "in", "out"
  logoutPc,         \* logout: "signOut" while its signOut() is pending
  unhandled,        \* the operations whose promise rejected with no handler
  WORKER_BASE_URL,  \* import.meta.env.VITE_WORKER_BASE_URL || ""
  callBudget,       \* how many handler invocations a run is followed for
  mounted,          \* the component is mounted (its cleanup has not run)
  calls,            \* handler invocations so far
  cancelAsked,      \* the slots whose running session the user has cancelled
  rows, loading,
  query, regionFilter, seasonFilter, sort,   \* toast: search, filters, sort order
  currentPage,                               \* toast: the page of the table shown
  loads,            \* list reads pending outside a mutation handler
  savingText, uploadingCreate, uploadingVideo,
  error,                          \* plain: the error banner
  toastSuccess, toastError,       \* toast: the two toasts
  formErrors, editFormErrors,     \* toast: per-field messages
  drawerOpen, confirmOpen, confirmId,    \* toast: create drawer, delete dialog
  title, content, region, season, fact, mapUrl, file,
  uploadPct, xhrRef,
  editingId, editTitle, editContent, editVideoFile, editRegion, editSeason,
  editFact, editMapUrl, editFile,
  editUploadPct, editXhrRef,
  createPc, createFd,                    \* createViaWorker: position, closure
  replacePc, replaceFd,                  \* replaceVideoViaWorker, likewise
  savePc, saveBody, saveFetch,           \* saveEditViaWorker: position, closure, fetch in flight
  removePc, removeId, removeFetch        \* removeViaWorker, likewise

cfgVars == <<rev, WORKER_BASE_URL, callBudget>>
routeVars == <<guardPc, guardLoading, authed, notified>>
logoutVars == <<logoutPc, unhandled>>
listVars == <<rows, loading>>
filterVars == <<query, regionFilter, seasonFilter, sort>>
pageVars == <<filterVars, currentPage>>
busyVars == <<savingText, uploadingCreate, uploadingVideo>>
msgVars == <<error, toastSuccess, toastError>>
fieldErrVars == <<formErrors, editFormErrors>>
panelVars == <<drawerOpen, confirmOpen, confirmId>>
textVars == <<title, content, region, season, fact, mapUrl>>
formVars == <<textVars, file>>
editTextVars == <<editTitle, editContent, editRegion, editSeason, editFact, editMapUrl>>
editVars == <<editingId, editTextVars, editVideoFile, editFile>>
createVars == <<createPc, createFd, uploadPct, xhrRef>>
replaceVars == <<replacePc, replaceFd, editUploadPct, editXhrRef>>
saveVars == <<savePc, saveBody, saveFetch>>
removeVars == <<removePc, removeId, removeFetch>>

vars == <<cfgVars, pageVars, routeVars, logoutVars, calls, cancelAsked, mounted,
          listVars, loads, busyVars, msgVars, fieldErrVars,
          panelVars, formVars, editVars, createVars, replaceVars, saveVars,
          removeVars>>

\* ------------------------------------------------------------ environment

\* The posts table as a read may find it: empty, or with one post, some of
\* whose nullable columns are null.  created_at and map_region are read but
\* used by no handler and are left out.
Post == [id |-> 7, title |-> << <<"A">> >>, content |-> << <<"B">> >>,
         video_file |-> << "clip1.mp4" >>, region |-> <<>>,
         season |-> << <<"summer">> >>, fact |-> <<>>, map_url |-> << <<"m">> >>]
Snapshots == {<<>>, <<Post>>}

\* What supabase.from("posts").select(...).order(...) resolves to.
ReadOutcomes ==
  {[error |-> << <<T("read failed")>> >>, data |-> <<>>]}
    \cup {[error |-> <<>>, data |-> d] : d \in Snapshots}

\* What supabase.auth.getSession() resolves to: an error, no session, a session.
Tokens == {"jwt1", "jwt2"}
SessionOutcomes ==
  {[error |-> << <<T("session lookup failed")>> >>, token |-> <<>>],
   [error |-> <<>>, token |-> <<>>]}
    \cup {[error |-> <<>>, token |-> <<t>>] : t \in Tokens}

\* getJwtOrThrow, given what getSession resolved to: the token, or the
\* message of the Error thrown.
getJwtOrThrow(o) ==
  IF o.error # <<>> THEN [ok |-> FALSE, jwt |-> "", message |-> o.error[1]]
  ELSE IF o.token = <<>>
    THEN [ok |-> FALSE, jwt |-> "", message |-> <<T("Not authenticated")>>]
  ELSE [ok |-> TRUE, jwt |-> o.token[1], message |-> NoMsg]

\* What the user may type into the create form.
CreateInputs ==
  {[title |-> <<" ", "T", " ">>, content |-> <<"C">>, region |-> <<"osh">>,
    season |-> <<"winter">>, fact |-> <<"F">>, mapUrl |-> <<"m", " ">>],
   [title |-> <<" ">>, content |-> <<"C">>, region |-> <<"naryn">>,
    season |-> <<"summer">>, fact |-> <<"F">>, mapUrl |-> <<>>]}

\* What the user may type into the edit form.
EditInputs ==
  {[title |-> <<"T">>, content |-> <<"C", " ">>, region |-> <<"naryn">>,
    season |-> <<"winter">>, fact |-> <<"F">>, mapUrl |-> <<" ">>]}

\* NewXhr with a token kept from an earlier lookup instead of this one's.
NewXhr_cachedToken(op, jwt, fd) ==
  [readyState |-> 1, op |-> op,
   url |-> stripTrailingSlash(WORKER_BASE_URL) \o <<"/api/admin/", op>>,
   auth |-> <<"Bearer", "jwt1">>, fd |-> <<fd>>, loaded |-> 0]

\* An XMLHttpRequest after open(), setRequestHeader() and send(): readyState
\* 1 (OPENED) while the transfer runs, 4 (DONE) after load or error, and 0
\* (UNSENT) once abort() has returned.  `loaded` counts the chunks sent.
NewXhr(op, jwt, fd) ==
  [readyState |-> 1, op |-> op,
   url |-> stripTrailingSlash(WORKER_BASE_URL) \o <<"/api/admin/", op>>,
   auth |-> <<"Bearer", jwt>>, fd |-> <<fd>>, loaded |-> 0]

\* The request once its transfer has ended, in readyState rs.  Nothing reads
\* the url, header, body or byte count of an ended transfer; the record
\* keeps the readyState, which cancel and teardown test.
Ended(ref, rs) ==
  <<[readyState |-> rs, op |-> ref[1].op, url |-> <<>>, auth |-> <<>>,
     fd |-> <<>>, loaded |-> 0]>>

InFlight(ref) == ref # <<>> /\ ref[1].readyState = 1

NoFd == <<>>

\* isBusy if each form looked at the flags of its own operations only.
isBusy_textOnly == savingText

isBusy == savingText \/ uploadingCreate \/ uploadingVideo
isEditing == editingId # <<>>


\* --------------------------------------------------------------------- init

\* The state in which the route is entered.
Constructed ==
  /\ rev \in {"plain", "toast"}
  /\ WORKER_BASE_URL \in {<<>>, <<"https://worker">>}
  /\ guardPc = "session" /\ guardLoading = TRUE /\ authed = FALSE
  /\ query = <<>> /\ regionFilter = <<"all">> /\ seasonFilter = <<"all">>
  /\ sort = [key |-> "id", direction |-> "desc"]
  /\ currentPage = 1
  /\ notified = "none"
  /\ logoutPc = "idle" /\ unhandled = {}
  /\ mounted = FALSE
  /\ calls = 0
  /\ cancelAsked = {}
  /\ rows = <<>> /\ loading = TRUE
  /\ loads = 0
  /\ savingText = FALSE /\ uploadingCreate = FALSE /\ uploadingVideo = FALSE
  /\ error = NoMsg /\ toastSuccess = NoMsg /\ toastError = NoMsg
  /\ formErrors = <<>> /\ editFormErrors = <<>>
  /\ drawerOpen = FALSE /\ confirmOpen = FALSE /\ confirmId = <<>>
  /\ title = <<>> /\ content = <<>> /\ region = <<"naryn">>
  /\ season = <<"winter">> /\ fact = <<>> /\ mapUrl = <<>> /\ file = <<>>
  /\ uploadPct = 0 /\ xhrRef = <<>>
  /\ editingId = <<>> /\ editTitle = <<>> /\ editContent = <<>>
  /\ editVideoFile = "" /\ editRegion = <<"naryn">> /\ editSeason = <<"winter">>
  /\ editFact = <<>> /\ editMapUrl = <<>> /\ editFile = <<>>
  /\ editUploadPct = 0 /\ editXhrRef = <<>>
  /\ createPc = "idle" /\ createFd = NoFd
  /\ replacePc = "idle" /\ replaceFd = NoFd
  /\ savePc = "idle" /\ saveBody = NoFd /\ saveFetch = <<>>
  /\ removePc = "idle" /\ removeId = <<>> /\ removeFetch = <<>>

Init == Constructed /\ callBudget = MaxCalls

\* ----------------------------------------------------- displayed messages

\* The three message states, threaded through a handler's statements.
Msgs == [error |-> error, toastSuccess |-> toastSuccess, toastError |-> toastError]

\* setError(msg) of the plain revision, setToastError(msg) of the toast one
SetError(m, msg) ==
  IF rev = "plain" THEN [m EXCEPT !.error = msg] ELSE [m EXCEPT !.toastError = msg]

\* setToastSuccess(msg); the plain revision shows no success message
SetSuccess(m, msg) ==
  IF rev = "plain" THEN m ELSE [m EXCEPT !.toastSuccess = msg]

\* The handlers' opening statements: setError("") in the plain revision,
\* setToastError(""); setToastSuccess("") in the toast one.
ClearMsgs(m) ==
  IF rev = "plain" THEN [m EXCEPT !.error = NoMsg]
  ELSE [m EXCEPT !.toastError = NoMsg, !.toastSuccess = NoMsg]

Show(m) ==
  /\ error' = m.error
  /\ toastSuccess' = m.toastSuccess
  /\ toastError' = m.toastError

\* toast: a toast is dismissed, by its timer or by its close button.
dismissToast ==
  /\ mounted /\ rev = "toast"
  /\ \E kind \in {"success", "error"} :
       IF kind = "success"
         THEN toastSuccess # NoMsg /\ toastSuccess' = NoMsg /\ UNCHANGED toastError
         ELSE toastError # NoMsg /\ toastError' = NoMsg /\ UNCHANGED toastSuccess
  /\ UNCHANGED <<cfgVars, pageVars, routeVars, logoutVars,
                 calls, cancelAsked, mounted, listVars, loads, busyVars,
                 error, fieldErrVars, panelVars, formVars, editVars, createVars,
                 replaceVars, saveVars, removeVars>>

\* ------------------------------------------------------------------- load

\* load(), up to its await: the messages are cleared and loading is set.
loadStart(m) == ClearMsgs(m)

\* loadRows with the rows cleared when the read fails.
loadRows_clearedOnError(o) == IF o.error # <<>> THEN <<>> ELSE o.data

\* loadRows with the rows read merged into the ones already shown.
loadRows_merged(o) == IF o.error # <<>> THEN rows ELSE rows \o o.data

\* load(), after its await: an error is displayed and the rows are kept; a
\* result replaces the rows.
loadRows(o) == IF o.error # <<>> THEN rows ELSE o.data
loadMsgs(m, o) == IF o.error # <<>> THEN SetError(m, o.error[1]) ELSE m

\* toast: load() ends with setCurrentPage(1) when the read succeeded.  (The
\* plain revision has no pages; its page stays 1.)
loadPage(o) == IF o.error # <<>> THEN currentPage ELSE 1

\* The Reload button (disabled while busy).
load ==
  /\ mounted /\ ~isBusy
  /\ calls < callBudget /\ calls' = calls + 1
  /\ loads < MaxLoads
  /\ loads' = loads + 1
  /\ loading' = TRUE
  /\ Show(loadStart(Msgs))
  /\ UNCHANGED <<cfgVars, pageVars, routeVars, logoutVars,
                 cancelAsked, mounted, rows, busyVars, fieldErrVars, panelVars,
                 formVars, editVars, createVars, replaceVars, saveVars, removeVars>>

\* A read started by the mount effect or the Reload button resolves to o.
load_answered(o) ==
  /\ loads > 0
  /\ rows' = loadRows(o)
  /\ currentPage' = loadPage(o)
  /\ Show(loadMsgs(Msgs, o))
  /\ loading' = FALSE
  /\ loads' = loads - 1
  /\ UNCHANGED <<cfgVars, filterVars, routeVars, logoutVars,
                 cancelAsked, calls, mounted, busyVars, fieldErrVars, panelVars,
                 formVars, editVars, createVars, replaceVars, saveVars, removeVars>>

\* A read started by the mount effect or the Reload button answers, with any
\* outcome.
load_resolved == \E o \in ReadOutcomes : load_answered(o)

\* ------------------------------------------------------------ create form

\* The create form is always rendered in the plain revision and sits in the
\* drawer in the toast one.
CreateFormShown == rev = "plain" \/ drawerOpen

\* onChange of the text inputs and selects of the create form (the toast
\* revision disables them while busy).
onChangeCreate ==
  /\ mounted /\ CreateFormShown
  /\ rev = "toast" => ~isBusy
  /\ \E f \in CreateInputs :
       /\ title' = f.title /\ content' = f.content /\ region' = f.region
       /\ season' = f.season /\ fact' = f.fact /\ mapUrl' = f.mapUrl
  /\ UNCHANGED <<cfgVars, pageVars, routeVars, logoutVars,
                 cancelAsked, calls, mounted, listVars, loads, busyVars, msgVars,
                 fieldErrVars, panelVars, file, editVars, createVars,
                 replaceVars, saveVars, removeVars>>

\* onChange of the file input, and the toast revision's clear button
\* (both disabled while busy).
onChangeFile ==
  /\ mounted /\ CreateFormShown /\ ~isBusy
  /\ \E f \in {<<>>} \cup {<<x>> : x \in CreateFiles} : file' = f
  /\ UNCHANGED <<cfgVars, pageVars, routeVars, logoutVars,
                 cancelAsked, calls, mounted, listVars, loads, busyVars, msgVars,
                 fieldErrVars, panelVars, textVars, editVars, createVars,
                 replaceVars, saveVars, removeVars>>

\* toast: the "new post" button (disabled while busy)
openDrawer ==
  /\ mounted /\ rev = "toast" /\ ~isBusy /\ ~drawerOpen
  /\ drawerOpen' = TRUE
  /\ UNCHANGED <<cfgVars, pageVars, routeVars, logoutVars,
                 cancelAsked, calls, mounted, listVars, loads, busyVars, msgVars,
                 fieldErrVars, confirmOpen, confirmId, formVars, editVars,
                 createVars, replaceVars, saveVars, removeVars>>

\* toast: the drawer's close button and its overlay (never disabled)
closeDrawer ==
  /\ mounted /\ rev = "toast" /\ drawerOpen
  /\ drawerOpen' = FALSE
  /\ UNCHANGED <<cfgVars, pageVars, routeVars, logoutVars,
                 cancelAsked, calls, mounted, listVars, loads, busyVars, msgVars,
                 fieldErrVars, confirmOpen, confirmId, formVars, editVars,
                 createVars, replaceVars, saveVars, removeVars>>

\* ------------------------------------------------------- create: validation

\* plain: validateBeforeUpload with the texts taken as typed, blanks and all
validateBeforeUpload_untrimmed ==
  IF WORKER_BASE_URL = <<>> THEN <<T("VITE_WORKER_BASE_URL is not set")>>
  ELSE IF title = <<>> THEN <<T("Fill in Title")>>
  ELSE IF content = <<>> THEN <<T("Fill in Content")>>
  ELSE IF region = <<>> THEN <<T("Choose region")>>
  ELSE IF season = <<>> THEN <<T("Choose season")>>
  ELSE IF fact = <<>> THEN <<T("Fill in fact (1 line)")>>
  ELSE IF file = <<>> THEN <<T("Choose a video file")>>
  ELSE validateVideoFile(file)

\* plain: validateBeforeUpload, the first failing check's message
validateBeforeUpload ==
  IF WORKER_BASE_URL = <<>> THEN <<T("VITE_WORKER_BASE_URL is not set")>>
  ELSE IF Trim(title) = <<>> THEN <<T("Fill in Title")>>
  ELSE IF Trim(content) = <<>> THEN <<T("Fill in Content")>>
  ELSE IF Trim(region) = <<>> THEN <<T("Choose region")>>
  ELSE IF Trim(season) = <<>> THEN <<T("Choose season")>>
  ELSE IF Trim(fact) = <<>> THEN <<T("Fill in fact (1 line)")>>
  ELSE IF file = <<>> THEN <<T("Choose a video file")>>
  ELSE validateVideoFile(file)

\* toast: validateCreateForm, the map from field name to message
validateCreateForm ==
  LET bad == {f \in {"title", "content", "region", "season", "fact", "file"} :
                \/ f = "title" /\ Trim(title) = <<>>
                \/ f = "content" /\ Trim(content) = <<>>
                \/ f = "region" /\ Trim(region) = <<>>
                \/ f = "season" /\ Trim(season) = <<>>
                \/ f = "fact" /\ Trim(fact) = <<>>
                \/ f = "file" /\ (file = <<>> \/ validateVideoFile(file) # NoMsg)}
  IN  [f \in bad |->
         CASE f = "title" -> <<T("Fill in Title")>>
           [] f = "content" -> <<T("Fill in Content")>>
           [] f = "region" -> <<T("Choose region")>>
           [] f = "season" -> <<T("Choose season")>>
           [] f = "fact" -> <<T("Fill in fact (1 line)")>>
           [] OTHER -> IF file = <<>> THEN <<T("Choose a video file")>>
                       ELSE validateVideoFile(file)]

\* The FormData createViaWorker builds from the values of the render it was
\* created in.
CreateFormData ==
  [title |-> Trim(title), content |-> Trim(content), region |-> region,
   season |-> season, fact |-> Trim(fact), map_url |-> Trim(mapUrl),
   map_region |-> region, file |-> file[1]]

\* ----------------------------------------------------------- create: steps

\* plain: createViaWorker up to its first await (the submit button is
\* disabled while busy).
createViaWorker ==
  /\ mounted /\ rev = "plain" /\ ~isBusy
  /\ calls < callBudget /\ calls' = calls + 1
  /\ LET v == validateBeforeUpload IN
       IF v # NoMsg
         THEN /\ Show(SetError(ClearMsgs(Msgs), v))
              /\ UNCHANGED <<uploadingCreate, createVars>>
         ELSE /\ Show(ClearMsgs(Msgs))
              /\ uploadingCreate' = TRUE
              /\ uploadPct' = 0
              /\ createPc' = "jwt"
              /\ createFd' = <<CreateFormData>>
              /\ UNCHANGED <<xhrRef>>
  /\ UNCHANGED <<cfgVars, pageVars, routeVars, logoutVars,
                 cancelAsked, mounted, listVars, loads, savingText, uploadingVideo,
                 fieldErrVars, panelVars, formVars, editVars, replaceVars,
                 saveVars, removeVars>>

\* toast: createViaWorker up to its first await.  The form is validated
\* first; the base address is checked inside the try block, after the busy
\* flag and the progress were set, and its Error is caught at once.
createViaWorker_toast ==
  /\ mounted /\ rev = "toast" /\ drawerOpen /\ ~isBusy
  /\ calls < callBudget /\ calls' = calls + 1
  /\ LET errors == validateCreateForm IN
       /\ formErrors' = errors
       /\ IF DOMAIN errors # {}
            THEN UNCHANGED <<msgVars, uploadingCreate, createVars>>
          ELSE IF WORKER_BASE_URL = <<>>
            THEN /\ Show(SetError(ClearMsgs(Msgs),
                                  <<T("VITE_WORKER_BASE_URL is not set")>>))
                 /\ uploadPct' = 0
                 /\ UNCHANGED <<uploadingCreate, createPc, createFd,
                                xhrRef>>
          ELSE /\ Show(ClearMsgs(Msgs))
               /\ uploadingCreate' = TRUE
               /\ uploadPct' = 0
               /\ createPc' = "jwt"
               /\ createFd' = <<CreateFormData>>
               /\ UNCHANGED <<xhrRef>>
  /\ UNCHANGED <<cfgVars, pageVars, routeVars, logoutVars,
                 cancelAsked, mounted, listVars, loads, savingText, uploadingVideo,
                 editFormErrors, panelVars, formVars, editVars, replaceVars,
                 saveVars, removeVars>>

\* createViaWorker after `await getJwtOrThrow()`: an Error goes to catch and
\* finally; otherwise the XMLHttpRequest is created, stored in xhrRef,
\* opened with the Authorization header and sent.
createViaWorker_jwt(o) ==
  /\ createPc = "jwt"
  /\ LET r == getJwtOrThrow(o) IN
         IF r.ok
           THEN /\ xhrRef' = <<NewXhr("create-post", r.jwt, createFd[1])>>
                /\ createPc' = "xhr"
                /\ UNCHANGED <<msgVars, uploadingCreate, createFd>>
           ELSE /\ Show(SetError(Msgs, MessageOr(r.message, "Create failed")))
                /\ uploadingCreate' = FALSE
                /\ createPc' = "idle"
                /\ createFd' = NoFd
                /\ UNCHANGED xhrRef
  /\ cancelAsked' = IF createPc' = "idle" THEN cancelAsked \ {"create"} ELSE cancelAsked
  /\ UNCHANGED <<cfgVars, pageVars, routeVars, logoutVars,
                 calls, mounted, listVars, loads, savingText, uploadingVideo,
                 fieldErrVars, panelVars, formVars, editVars, uploadPct, replaceVars, saveVars, removeVars>>

\* xhr.upload.onprogress of the create transfer: one more chunk was sent; the
\* percentage is set only when the event's total is known.
createXhr_progress(lengthComputable) ==
  /\ createPc = "xhr" /\ InFlight(xhrRef)
  /\ xhrRef[1].loaded < Chunks
  /\ xhrRef' = <<[xhrRef[1] EXCEPT !.loaded = @ + 1]>>
  /\ uploadPct' = IF lengthComputable
                    THEN Pct(xhrRef[1].loaded + 1, Chunks)
                    ELSE uploadPct
  /\ UNCHANGED <<cfgVars, pageVars, routeVars, logoutVars,
                 cancelAsked, calls, mounted, listVars, loads, busyVars, msgVars,
                 fieldErrVars, panelVars, formVars, editVars, createPc,
                 createFd, replaceVars, saveVars, removeVars>>

\* A progress event of the create transfer, its total known or not.
createXhr_onprogress ==
  \E lengthComputable \in BOOLEAN : createXhr_progress(lengthComputable)

\* createViaWorker_settled with the chosen file kept after a success.
createViaWorker_settled_fileKept(result) ==
  IF ~result.ok
    THEN /\ Show(SetError(Msgs, MessageOr(FailureMessage("Upload", result),
                                          "Create failed")))
         /\ uploadingCreate' = FALSE
         /\ createPc' = "idle"
         /\ createFd' = NoFd
         /\ UNCHANGED <<formVars, uploadPct, formErrors, drawerOpen, loading>>
    ELSE /\ title' = <<>> /\ content' = <<>> /\ fact' = <<>>
         /\ mapUrl' = <<>> /\ file' = file
         /\ uploadPct' = 0
         /\ formErrors' = <<>>
         /\ drawerOpen' = FALSE
         /\ Show(loadStart(SetSuccess(Msgs, <<T("Post created!")>>)))
         /\ loading' = TRUE
         /\ createPc' = "load"
         /\ UNCHANGED <<region, season, uploadingCreate, createFd>>

\* createViaWorker after the XHR promise: a result that is not ok is thrown
\* (catch, finally); an ok one resets the form and calls load().  It is the
\* continuation of the event that settles the promise and runs right after
\* that event's handler, before any other event.
createViaWorker_settled(result) ==
  IF ~result.ok
    THEN /\ Show(SetError(Msgs, MessageOr(FailureMessage("Upload", result),
                                          "Create failed")))
         /\ uploadingCreate' = FALSE
         /\ createPc' = "idle"
         /\ createFd' = NoFd
         /\ UNCHANGED <<formVars, uploadPct, formErrors, drawerOpen, loading>>
    ELSE /\ title' = <<>> /\ content' = <<>> /\ fact' = <<>>
         /\ mapUrl' = <<>> /\ file' = <<>>
         /\ uploadPct' = 0
         /\ formErrors' = <<>>
         /\ drawerOpen' = FALSE
         /\ Show(loadStart(SetSuccess(Msgs, <<T("Post created!")>>)))
         /\ loading' = TRUE
         /\ createPc' = "load"
         /\ UNCHANGED <<region, season, uploadingCreate, createFd>>

\* What createViaWorker_settled leaves alone, the request apart.
createSettledFrame ==
  UNCHANGED <<cfgVars, pageVars, routeVars, logoutVars,
              calls, mounted, rows, loads, savingText, uploadingVideo,
              editFormErrors, confirmOpen, confirmId, editVars, replaceVars,
              saveVars, removeVars>>

\* xhr.onload of the create transfer, and the continuation it resolves
createXhr_onload(status, responseText) ==
  /\ createPc = "xhr" /\ InFlight(xhrRef)
  /\ xhrRef' = Ended(xhrRef, 4)
  /\ createViaWorker_settled(onloadResult(status, responseText))
  /\ cancelAsked' = IF createPc' = "idle" THEN cancelAsked \ {"create"} ELSE cancelAsked
  /\ createSettledFrame

\* xhr.onerror of the create transfer, and the continuation it resolves
createXhr_onerror ==
  /\ createPc = "xhr" /\ InFlight(xhrRef)
  /\ xhrRef' = Ended(xhrRef, 4)
  /\ createViaWorker_settled(onerrorResult)
  /\ cancelAsked' = cancelAsked \ {"create"}
  /\ createSettledFrame

\* The Cancel button of the create progress block is there while
\* uploadingCreate is set.
CancelUploadShown == uploadingCreate /\ CreateFormShown

\* xhr.abort(): a transfer in flight fires onabort and is left UNSENT; an
\* UNSENT request is left as it is.
Aborted(ref) == Ended(ref, 0)

\* cancelUpload if a cancel that finds no transfer reported it
cancelUpload_reporting ==
  /\ mounted /\ CancelUploadShown
  /\ IF InFlight(xhrRef)
       THEN /\ xhrRef' = Aborted(xhrRef)
            /\ createViaWorker_settled(onabortResult)
            /\ UNCHANGED cancelAsked
       ELSE /\ cancelAsked' = IF createPc = "jwt" THEN cancelAsked \cup {"create"}
                                                ELSE cancelAsked
            /\ Show(SetError(Msgs, <<T("Nothing to cancel")>>))
            /\ UNCHANGED <<xhrRef, uploadingCreate, createPc, createFd,
                           formVars, uploadPct, formErrors, drawerOpen, loading>>
  /\ createSettledFrame

\* cancelUpload: abort() unless there is no request or it is DONE; onabort
\* resolves the promise and the continuation runs.
cancelUpload ==
  /\ mounted /\ CancelUploadShown
  /\ IF InFlight(xhrRef)
       THEN /\ xhrRef' = Aborted(xhrRef)
            /\ createViaWorker_settled(onabortResult)
            /\ UNCHANGED cancelAsked
       ELSE /\ cancelAsked' = IF createPc = "jwt" THEN cancelAsked \cup {"create"}
                                                ELSE cancelAsked
            /\ UNCHANGED <<xhrRef, msgVars, uploadingCreate, createPc, createFd,
                           formVars, uploadPct, formErrors, drawerOpen, loading>>
  /\ createSettledFrame


\* createViaWorker_loaded without the finally block: the busy flag stays set.
createViaWorker_loaded_noFinally ==
  /\ createPc = "load"
  /\ \E o \in ReadOutcomes :
       /\ rows' = loadRows(o)
       /\ currentPage' = loadPage(o)
       /\ Show(loadMsgs(Msgs, o))
  /\ loading' = FALSE
  /\ uploadingCreate' = uploadingCreate
  /\ createPc' = "idle"
  /\ createFd' = NoFd
  /\ cancelAsked' = IF createPc' = "idle" THEN cancelAsked \ {"create"} ELSE cancelAsked
  /\ UNCHANGED <<cfgVars, filterVars, routeVars, logoutVars,
                 calls, mounted, loads, savingText, uploadingVideo,
                 fieldErrVars, panelVars, formVars, editVars, uploadPct, xhrRef, replaceVars, saveVars, removeVars>>

\* createViaWorker after `await load()`: the read's outcome is applied and
\* the finally block clears the busy flag.
createViaWorker_read(o) ==
  /\ createPc = "load"
  /\ rows' = loadRows(o)
  /\ currentPage' = loadPage(o)
  /\ Show(loadMsgs(Msgs, o))
  /\ loading' = FALSE
  /\ uploadingCreate' = FALSE
  /\ createPc' = "idle"
  /\ createFd' = NoFd
  /\ cancelAsked' = IF createPc' = "idle" THEN cancelAsked \ {"create"} ELSE cancelAsked
  /\ UNCHANGED <<cfgVars, filterVars, routeVars, logoutVars,
                 calls, mounted, loads, savingText, uploadingVideo,
                 fieldErrVars, panelVars, formVars, editVars, uploadPct, xhrRef, replaceVars, saveVars, removeVars>>

\* The list read of createViaWorker answers, with any outcome.
createViaWorker_loaded == \E o \in ReadOutcomes : createViaWorker_read(o)

\* -------------------------------------------------------------- edit form

\* row.field || fallback, for a nullable text
OrElse(m, fallback) == IF m = <<>> \/ m[1] = <<>> THEN fallback ELSE m[1]

\* startEdit(row): the Edit button of a row (disabled while busy; the plain
\* revision also disables it while a post is being edited).
startEdit ==
  /\ mounted /\ ~isBusy
  /\ rev = "plain" => ~isEditing
  /\ \E i \in 1..Len(rows) :
       LET row == rows[i] IN
         /\ editingId' = <<row.id>>
         /\ editTitle' = OrElse(row.title, <<>>)
         /\ editContent' = OrElse(row.content, <<>>)
         /\ editVideoFile' = IF row.video_file = <<>> THEN "" ELSE row.video_file[1]
         /\ editRegion' = OrElse(row.region, <<"naryn">>)
         /\ editSeason' = OrElse(row.season, <<"winter">>)
         /\ editFact' = OrElse(row.fact, <<>>)
         /\ editMapUrl' = OrElse(row.map_url, <<>>)
  /\ editFile' = <<>>
  /\ editUploadPct' = 0
  /\ editFormErrors' = <<>>
  /\ UNCHANGED <<cfgVars, pageVars, routeVars, logoutVars,
                 cancelAsked, calls, mounted, listVars, loads, busyVars, msgVars,
                 formErrors, panelVars, formVars, createVars, replacePc,
                 replaceFd, editXhrRef, saveVars, removeVars>>

\* The statements of cancelEdit, which saveEditViaWorker also calls.
cancelEditEffect ==
  /\ editingId' = <<>>
  /\ editTitle' = <<>> /\ editContent' = <<>> /\ editVideoFile' = ""
  /\ editRegion' = <<"naryn">> /\ editSeason' = <<"winter">>
  /\ editFact' = <<>> /\ editMapUrl' = <<>>
  /\ editFile' = <<>>
  /\ editUploadPct' = 0
  /\ editFormErrors' = <<>>

\* cancelEdit if the Close button were not disabled while busy
cancelEdit_whileBusy ==
  /\ mounted /\ isEditing
  /\ cancelEditEffect
  /\ UNCHANGED <<cfgVars, pageVars, routeVars, logoutVars,
                 cancelAsked, calls, mounted, listVars, loads, busyVars, msgVars,
                 formErrors, panelVars, formVars, createVars, replacePc,
                 replaceFd, editXhrRef, saveVars, removeVars>>

\* cancelEdit: the Close button of the edit view (disabled while busy; the
\* toast revision's modal ignores its close controls while busy).
cancelEdit ==
  /\ mounted /\ isEditing /\ ~isBusy
  /\ cancelEditEffect
  /\ UNCHANGED <<cfgVars, pageVars, routeVars, logoutVars,
                 cancelAsked, calls, mounted, listVars, loads, busyVars, msgVars,
                 formErrors, panelVars, formVars, createVars, replacePc,
                 replaceFd, editXhrRef, saveVars, removeVars>>

\* onChange of the edit form's inputs and selects (disabled while busy)
onChangeEdit ==
  /\ mounted /\ isEditing /\ ~isBusy
  /\ \E f \in EditInputs :
       /\ editTitle' = f.title /\ editContent' = f.content
       /\ editRegion' = f.region /\ editSeason' = f.season
       /\ editFact' = f.fact /\ editMapUrl' = f.mapUrl
  /\ UNCHANGED <<cfgVars, pageVars, routeVars, logoutVars,
                 cancelAsked, calls, mounted, listVars, loads, busyVars, msgVars,
                 fieldErrVars, panelVars, formVars, editingId, editVideoFile,
                 editFile, createVars, replaceVars, saveVars, removeVars>>

\* onChange of the edit view's file input (disabled while busy)
onChangeEditFile ==
  /\ mounted /\ isEditing /\ ~isBusy
  /\ \E f \in {<<>>} \cup {<<x>> : x \in EditFiles} : editFile' = f
  /\ UNCHANGED <<cfgVars, pageVars, routeVars, logoutVars,
                 cancelAsked, calls, mounted, listVars, loads, busyVars, msgVars,
                 fieldErrVars, panelVars, formVars, editingId, editTextVars,
                 editVideoFile, createVars, replaceVars, saveVars, removeVars>>

\* ----------------------------------------------------------- replace-video

\* The checks of replaceVideoViaWorker, in its order: the message of the
\* first that fails.
validateReplace ==
  IF WORKER_BASE_URL = <<>> THEN <<T("VITE_WORKER_BASE_URL is not set")>>
  ELSE IF editFile = <<>> THEN <<T("Choose a new video file")>>
  ELSE validateVideoFile(editFile)

\* replaceVideoViaWorker up to its first await (the button is disabled while
\* busy or without a file).  The toast revision runs the checks inside the
\* try block, so its finally block clears the busy flag after a failed one.
replaceVideoViaWorker ==
  /\ mounted /\ isEditing /\ ~isBusy /\ editFile # <<>>
  /\ calls < callBudget /\ calls' = calls + 1
  /\ LET v == validateReplace IN
       IF v # NoMsg
         THEN /\ Show(SetError(ClearMsgs(Msgs), MessageOr(v, "Replace video failed")))
              /\ UNCHANGED <<uploadingVideo, replaceVars>>
         ELSE /\ Show(ClearMsgs(Msgs))
              /\ uploadingVideo' = TRUE
              /\ editUploadPct' = 0
              /\ replacePc' = "jwt"
              /\ replaceFd' = <<[id |-> editingId[1], file |-> editFile[1]]>>
              /\ UNCHANGED <<editXhrRef>>
  /\ UNCHANGED <<cfgVars, pageVars, routeVars, logoutVars,
                 cancelAsked, mounted, listVars, loads, savingText, uploadingCreate,
                 fieldErrVars, panelVars, formVars, editVars, createVars,
                 saveVars, removeVars>>

\* replaceVideoViaWorker after `await getJwtOrThrow()`
replaceVideoViaWorker_jwt(o) ==
  /\ replacePc = "jwt"
  /\ LET r == getJwtOrThrow(o) IN
         IF r.ok
           THEN /\ editXhrRef' = <<NewXhr("replace-video", r.jwt, replaceFd[1])>>
                /\ replacePc' = "xhr"
                /\ UNCHANGED <<msgVars, uploadingVideo, replaceFd>>
           ELSE /\ Show(SetError(Msgs, MessageOr(r.message, "Replace video failed")))
                /\ uploadingVideo' = FALSE
                /\ replacePc' = "idle"
                /\ replaceFd' = NoFd
                /\ UNCHANGED editXhrRef
  /\ cancelAsked' = IF replacePc' = "idle" THEN cancelAsked \ {"replace"} ELSE cancelAsked
  /\ UNCHANGED <<cfgVars, pageVars, routeVars, logoutVars,
                 calls, mounted, listVars, loads, savingText, uploadingCreate,
                 fieldErrVars, panelVars, formVars, editVars, editUploadPct, createVars, saveVars, removeVars>>

\* replaceXhr_progress without the test of lengthComputable: the
\* percentage is computed from every event.
replaceXhr_progress_everyEvent(lengthComputable) ==
  /\ replacePc = "xhr" /\ InFlight(editXhrRef)
  /\ editXhrRef[1].loaded < Chunks
  /\ editXhrRef' = <<[editXhrRef[1] EXCEPT !.loaded = @ + 1]>>
  /\ editUploadPct' = Pct(editXhrRef[1].loaded + 1, Chunks)
  /\ UNCHANGED <<cfgVars, pageVars, routeVars, logoutVars,
                 cancelAsked, calls, mounted, listVars, loads, busyVars, msgVars,
                 fieldErrVars, panelVars, formVars, editVars, replacePc,
                 replaceFd, createVars, saveVars, removeVars>>

\* xhr.upload.onprogress of the replace transfer
replaceXhr_progress(lengthComputable) ==
  /\ replacePc = "xhr" /\ InFlight(editXhrRef)
  /\ editXhrRef[1].loaded < Chunks
  /\ editXhrRef' = <<[editXhrRef[1] EXCEPT !.loaded = @ + 1]>>
  /\ editUploadPct' = IF lengthComputable
                        THEN Pct(editXhrRef[1].loaded + 1, Chunks)
                        ELSE editUploadPct
  /\ UNCHANGED <<cfgVars, pageVars, routeVars, logoutVars,
                 cancelAsked, calls, mounted, listVars, loads, busyVars, msgVars,
                 fieldErrVars, panelVars, formVars, editVars, replacePc,
                 replaceFd, createVars, saveVars, removeVars>>

\* A progress event of the replace transfer, its total known or not.
replaceXhr_onprogress ==
  \E lengthComputable \in BOOLEAN : replaceXhr_progress(lengthComputable)

\* replaceVideoViaWorker_settled with the shown file name left as it was,
\* whatever the body carries.
replaceVideoViaWorker_settled_nameKept(result) ==
  IF ~result.ok
    THEN /\ Show(SetError(Msgs, MessageOr(FailureMessage("Replace", result),
                                          "Replace video failed")))
         /\ uploadingVideo' = FALSE
         /\ replacePc' = "idle"
         /\ replaceFd' = NoFd
         /\ UNCHANGED <<editVideoFile, editFile, editUploadPct, loading>>
    ELSE /\ editVideoFile' = editVideoFile
         /\ editFile' = <<>>
         /\ editUploadPct' = 0
         /\ Show(loadStart(SetSuccess(Msgs, <<T("Video replaced!")>>)))
         /\ loading' = TRUE
         /\ replacePc' = "load"
         /\ UNCHANGED <<uploadingVideo, replaceFd>>

\* replaceVideoViaWorker after the XHR promise: a result that is not ok is
\* thrown; an ok one shows the body's `file` if it is a string, clears the
\* chosen file and the progress, and calls load().
replaceVideoViaWorker_settled(result) ==
  IF ~result.ok
    THEN /\ Show(SetError(Msgs, MessageOr(FailureMessage("Replace", result),
                                          "Replace video failed")))
         /\ uploadingVideo' = FALSE
         /\ replacePc' = "idle"
         /\ replaceFd' = NoFd
         /\ UNCHANGED <<editVideoFile, editFile, editUploadPct, loading>>
    ELSE /\ editVideoFile' =
              IF ~result.body.null /\ result.body.file # <<>>
                THEN result.body.file[1]
                ELSE editVideoFile
         /\ editFile' = <<>>
         /\ editUploadPct' = 0
         /\ Show(loadStart(SetSuccess(Msgs, <<T("Video replaced!")>>)))
         /\ loading' = TRUE
         /\ replacePc' = "load"
         /\ UNCHANGED <<uploadingVideo, replaceFd>>

\* What replaceVideoViaWorker_settled leaves alone, the request apart.
replaceSettledFrame ==
  UNCHANGED <<cfgVars, pageVars, routeVars, logoutVars,
              calls, mounted, rows, loads, savingText, uploadingCreate,
              fieldErrVars, panelVars, formVars, editingId, editTextVars,
              createVars, saveVars, removeVars>>

\* xhr.onload of the replace transfer, and the continuation it resolves
replaceXhr_onload(status, responseText) ==
  /\ replacePc = "xhr" /\ InFlight(editXhrRef)
  /\ editXhrRef' = Ended(editXhrRef, 4)
  /\ replaceVideoViaWorker_settled(onloadResult(status, responseText))
  /\ cancelAsked' = IF replacePc' = "idle" THEN cancelAsked \ {"replace"} ELSE cancelAsked
  /\ replaceSettledFrame

\* xhr.onerror of the replace transfer, and the continuation it resolves
replaceXhr_onerror ==
  /\ replacePc = "xhr" /\ InFlight(editXhrRef)
  /\ editXhrRef' = Ended(editXhrRef, 4)
  /\ replaceVideoViaWorker_settled(onerrorResult)
  /\ cancelAsked' = cancelAsked \ {"replace"}
  /\ replaceSettledFrame

\* The Cancel button of the replace progress block: the plain revision
\* renders it while uploadingVideo && editUploadPct > 0, the toast one while
\* uploadingVideo; both inside the edit view.
CancelEditUploadShown ==
  /\ isEditing /\ uploadingVideo
  /\ rev = "plain" => editUploadPct > 0

\* cancelEditUpload: abort() unless there is no request or it is DONE.
cancelEditUpload ==
  /\ mounted /\ CancelEditUploadShown
  /\ IF InFlight(editXhrRef)
       THEN /\ editXhrRef' = Aborted(editXhrRef)
            /\ replaceVideoViaWorker_settled(onabortResult)
            /\ UNCHANGED cancelAsked
       ELSE /\ cancelAsked' = IF replacePc = "jwt" THEN cancelAsked \cup {"replace"}
                                                 ELSE cancelAsked
            /\ UNCHANGED <<editXhrRef, msgVars, uploadingVideo, replacePc, replaceFd,
                           editVideoFile, editFile, editUploadPct, loading>>
  /\ replaceSettledFrame


\* replaceVideoViaWorker after `await load()`
replaceVideoViaWorker_read(o) ==
  /\ replacePc = "load"
  /\ rows' = loadRows(o)
  /\ currentPage' = loadPage(o)
  /\ Show(loadMsgs(Msgs, o))
  /\ loading' = FALSE
  /\ uploadingVideo' = FALSE
  /\ replacePc' = "idle"
  /\ replaceFd' = NoFd
  /\ cancelAsked' = IF replacePc' = "idle" THEN cancelAsked \ {"replace"} ELSE cancelAsked
  /\ UNCHANGED <<cfgVars, filterVars, routeVars, logoutVars,
                 calls, mounted, loads, savingText, uploadingCreate,
                 fieldErrVars, panelVars, formVars, editVars, editUploadPct, editXhrRef, createVars, saveVars, removeVars>>

\* The list read of replaceVideoViaWorker answers, with any outcome.
replaceVideoViaWorker_loaded == \E o \in ReadOutcomes : replaceVideoViaWorker_read(o)

\* ------------------------------------------------------------- fetch calls

\* What fetch() settles to: a rejection (no response), or a response.
FetchOutcomes ==
  {[rejected |-> TRUE, status |-> 0, text |-> ""]}
    \cup {[rejected |-> FALSE, status |-> st, text |-> tx] :
            st \in Statuses, tx \in ResponseTexts}

\* A fetch() call in flight.
NewFetch(op, jwt, body) ==
  [op |-> op,
   url |-> stripTrailingSlash(WORKER_BASE_URL) \o <<"/api/admin/", op>>,
   auth |-> <<"Bearer", jwt>>, body |-> body]

\* The Error a fetch-based handler throws for an outcome, NoMsg when none:
\* the rejection itself, or for a status outside 2xx
\* data?.error || `${op} failed (status ${res.status})`.
FetchError(op, o) ==
  IF o.rejected THEN <<T("Failed to fetch")>>
  ELSE IF o.status >= 200 /\ o.status < 300 THEN NoMsg
  ELSE FailureMessage(op, [ok |-> FALSE, status |-> o.status,
                           body |-> fetchJson(o.text)])

\* -------------------------------------------------------------- update-post

\* plain: the one check of saveEditViaWorker
validateEdit ==
  IF \/ Trim(editTitle) = <<>> \/ Trim(editContent) = <<>>
     \/ Trim(editRegion) = <<>> \/ Trim(editSeason) = <<>>
     \/ Trim(editFact) = <<>>
    THEN <<T("In editing title/content/region/season/fact must not be empty")>>
    ELSE NoMsg

\* toast: validateEditForm, the map from field name to message
validateEditForm ==
  LET bad == {f \in {"editTitle", "editContent", "editRegion", "editSeason", "editFact"} :
                \/ f = "editTitle" /\ Trim(editTitle) = <<>>
                \/ f = "editContent" /\ Trim(editContent) = <<>>
                \/ f = "editRegion" /\ Trim(editRegion) = <<>>
                \/ f = "editSeason" /\ Trim(editSeason) = <<>>
                \/ f = "editFact" /\ Trim(editFact) = <<>>}
  IN  [f \in bad |->
         CASE f = "editTitle" -> <<T("Fill in Title")>>
           [] f = "editContent" -> <<T("Fill in Content")>>
           [] f = "editRegion" -> <<T("Choose region")>>
           [] f = "editSeason" -> <<T("Choose season")>>
           [] OTHER -> <<T("Fill in fact (1 line)")>>]

\* UpdateBody with the shown video file name sent along.
UpdateBody_withVideoFile ==
  [id |-> editingId[1], title |-> Trim(editTitle), content |-> Trim(editContent),
   region |-> editRegion, season |-> editSeason, fact |-> Trim(editFact),
   map_url |-> IF Trim(editMapUrl) = <<>> THEN <<>> ELSE <<Trim(editMapUrl)>>,
   map_region |-> editRegion, video_file |-> editVideoFile]

\* The JSON body saveEditViaWorker sends.
UpdateBody ==
  [id |-> editingId[1], title |-> Trim(editTitle), content |-> Trim(editContent),
   region |-> editRegion, season |-> editSeason, fact |-> Trim(editFact),
   map_url |-> IF Trim(editMapUrl) = <<>> THEN <<>> ELSE <<Trim(editMapUrl)>>,
   map_region |-> editRegion]

\* plain: saveEditViaWorker up to its first await (the Save button is in the
\* edit view and disabled while busy).  The base address is not checked.
saveEditViaWorker ==
  /\ mounted /\ rev = "plain" /\ isEditing /\ ~isBusy
  /\ calls < callBudget /\ calls' = calls + 1
  /\ LET v == validateEdit IN
       IF v # NoMsg
         THEN /\ Show(SetError(ClearMsgs(Msgs), v))
              /\ UNCHANGED <<savingText, saveVars>>
         ELSE /\ Show(ClearMsgs(Msgs))
              /\ savingText' = TRUE
              /\ savePc' = "jwt"
              /\ saveBody' = <<UpdateBody>>
              /\ UNCHANGED saveFetch
  /\ UNCHANGED <<cfgVars, pageVars, routeVars, logoutVars,
                 cancelAsked, mounted, listVars, loads, uploadingCreate,
                 uploadingVideo, fieldErrVars, panelVars, formVars, editVars,
                 createVars, replaceVars, removeVars>>

\* toast: saveEditViaWorker up to its first await; the base address is
\* checked inside the try block.
saveEditViaWorker_toast ==
  /\ mounted /\ rev = "toast" /\ isEditing /\ ~isBusy
  /\ calls < callBudget /\ calls' = calls + 1
  /\ LET errors == validateEditForm IN
       /\ editFormErrors' = errors
       /\ IF DOMAIN errors # {}
            THEN UNCHANGED <<msgVars, savingText, saveVars>>
          ELSE IF WORKER_BASE_URL = <<>>
            THEN /\ Show(SetError(ClearMsgs(Msgs),
                                  <<T("VITE_WORKER_BASE_URL is not set")>>))
                 /\ UNCHANGED <<savingText, saveVars>>
          ELSE /\ Show(ClearMsgs(Msgs))
               /\ savingText' = TRUE
               /\ savePc' = "jwt"
               /\ saveBody' = <<UpdateBody>>
               /\ UNCHANGED saveFetch
  /\ UNCHANGED <<cfgVars, pageVars, routeVars, logoutVars,
                 cancelAsked, mounted, listVars, loads, uploadingCreate,
                 uploadingVideo, formErrors, panelVars, formVars, editVars,
                 createVars, replaceVars, removeVars>>

\* saveEditViaWorker after `await getJwtOrThrow()`: fetch() is called.
saveEditViaWorker_jwt(o) ==
  /\ savePc = "jwt"
  /\ LET r == getJwtOrThrow(o) IN
         IF r.ok
           THEN /\ saveFetch' = <<NewFetch("update-post", r.jwt, saveBody[1])>>
                /\ savePc' = "fetch"
                /\ UNCHANGED <<msgVars, savingText, saveBody>>
           ELSE /\ Show(SetError(Msgs, MessageOr(r.message, "Update failed")))
                /\ savingText' = FALSE
                /\ savePc' = "idle"
                /\ saveBody' = NoFd
                /\ UNCHANGED saveFetch
  /\ UNCHANGED <<cfgVars, pageVars, routeVars, logoutVars,
                 cancelAsked, calls, mounted, listVars, loads, uploadingCreate,
                 uploadingVideo, fieldErrVars, panelVars, formVars, editVars,
                 createVars, replaceVars, removeVars>>

\* saveEditViaWorker_response if a failed request were tried again: the
\* handler goes back to the token lookup instead of ending.
saveEditViaWorker_response_retry(o) ==
  /\ savePc = "fetch"
  /\ saveFetch' = <<>>
  /\ LET e == FetchError("Update", o) IN
         IF e # NoMsg
           THEN /\ savePc' = "jwt"
                /\ UNCHANGED <<msgVars, savingText, saveBody, editVars,
                               editUploadPct, editFormErrors, loading>>
           ELSE /\ cancelEditEffect
                /\ Show(loadStart(SetSuccess(Msgs, <<T("Post updated!")>>)))
                /\ loading' = TRUE
                /\ savePc' = "load"
                /\ UNCHANGED <<savingText, saveBody>>
  /\ UNCHANGED <<cfgVars, pageVars, routeVars, logoutVars,
                 cancelAsked, calls, mounted, rows, loads, uploadingCreate, uploadingVideo,
                 formErrors, panelVars, formVars, createVars, replacePc,
                 replaceFd, editXhrRef, removeVars>>

\* saveEditViaWorker after `await fetch(...)` and `await res.json()`: an
\* Error goes to catch and finally; otherwise cancelEdit() and load().
saveEditViaWorker_response(o) ==
  /\ savePc = "fetch"
  /\ saveFetch' = <<>>
  /\ LET e == FetchError("Update", o) IN
         IF e # NoMsg
           THEN /\ Show(SetError(Msgs, MessageOr(e, "Update failed")))
                /\ savingText' = FALSE
                /\ savePc' = "idle"
                /\ saveBody' = NoFd
                /\ UNCHANGED <<editVars, editUploadPct, editFormErrors, loading>>
           ELSE /\ cancelEditEffect
                /\ Show(loadStart(SetSuccess(Msgs, <<T("Post updated!")>>)))
                /\ loading' = TRUE
                /\ savePc' = "load"
                /\ UNCHANGED <<savingText, saveBody>>
  /\ UNCHANGED <<cfgVars, pageVars, routeVars, logoutVars,
                 cancelAsked, calls, mounted, rows, loads, uploadingCreate, uploadingVideo,
                 formErrors, panelVars, formVars, createVars, replacePc,
                 replaceFd, editXhrRef, removeVars>>

\* saveEditViaWorker after `await load()`
saveEditViaWorker_read(o) ==
  /\ savePc = "load"
  /\ rows' = loadRows(o)
  /\ currentPage' = loadPage(o)
  /\ Show(loadMsgs(Msgs, o))
  /\ loading' = FALSE
  /\ savingText' = FALSE
  /\ savePc' = "idle"
  /\ saveBody' = NoFd
  /\ UNCHANGED <<cfgVars, filterVars, routeVars, logoutVars,
                 cancelAsked, calls, mounted, loads, uploadingCreate, uploadingVideo,
                 fieldErrVars, panelVars, formVars, editVars, createVars,
                 replaceVars, saveFetch, removeVars>>

\* The list read of saveEditViaWorker answers, with any outcome.
saveEditViaWorker_loaded == \E o \in ReadOutcomes : saveEditViaWorker_read(o)

\* -------------------------------------------------------------- delete-post

\* removeViaWorker_row without window.confirm: the call goes on whatever the
\* user would have answered.
removeViaWorker_row_unasked(id, ok) ==
  /\ mounted /\ rev = "plain" /\ ~isBusy /\ ~isEditing
  /\ calls < callBudget /\ calls' = calls + 1
  /\ savingText' = TRUE
  /\ Show(ClearMsgs(Msgs))
  /\ removePc' = "jwt"
  /\ removeId' = <<id>>
  /\ UNCHANGED removeFetch
  /\ UNCHANGED <<cfgVars, pageVars, routeVars, logoutVars,
                 cancelAsked, mounted, listVars, loads, uploadingCreate,
                 uploadingVideo, fieldErrVars, panelVars, formVars, editVars,
                 createVars, replaceVars, saveVars>>

\* plain: removeViaWorker(id) up to its first await, window.confirm
\* answering ok (the Delete button of a row is disabled while busy or
\* editing).  The base address is not checked.
removeViaWorker_row(id, ok) ==
  /\ mounted /\ rev = "plain" /\ ~isBusy /\ ~isEditing
  /\ calls < callBudget /\ calls' = calls + 1
  /\ IF ~ok
       THEN UNCHANGED <<msgVars, savingText, removeVars>>
       ELSE /\ savingText' = TRUE
            /\ Show(ClearMsgs(Msgs))
            /\ removePc' = "jwt"
            /\ removeId' = <<id>>
            /\ UNCHANGED removeFetch
  /\ UNCHANGED <<cfgVars, pageVars, routeVars, logoutVars,
                 cancelAsked, mounted, listVars, loads, uploadingCreate,
                 uploadingVideo, fieldErrVars, panelVars, formVars, editVars,
                 createVars, replaceVars, saveVars>>

\* plain: the Delete button of any row, and any answer to window.confirm.
removeViaWorker ==
  \E i \in 1..Len(rows), ok \in BOOLEAN : removeViaWorker_row(rows[i].id, ok)

\* toast: askDelete(row.id), the Delete button of a row (disabled while busy)
askDelete ==
  /\ mounted /\ rev = "toast" /\ ~isBusy
  /\ \E i \in 1..Len(rows) : confirmId' = <<rows[i].id>>
  /\ confirmOpen' = TRUE
  /\ UNCHANGED <<cfgVars, pageVars, routeVars, logoutVars,
                 cancelAsked, calls, mounted, listVars, loads, busyVars, msgVars,
                 fieldErrVars, drawerOpen, formVars, editVars, createVars,
                 replaceVars, saveVars, removeVars>>

\* toast: the dialog's onCancel (its controls are disabled while savingText)
confirmCancel ==
  /\ mounted /\ rev = "toast" /\ confirmOpen /\ ~savingText
  /\ confirmOpen' = FALSE
  /\ confirmId' = <<>>
  /\ UNCHANGED <<cfgVars, pageVars, routeVars, logoutVars,
                 cancelAsked, calls, mounted, listVars, loads, busyVars, msgVars,
                 fieldErrVars, drawerOpen, formVars, editVars, createVars,
                 replaceVars, saveVars, removeVars>>

\* toast: removeViaWorker up to its first await: the dialog's confirm button
\* (disabled while savingText).  The base address is checked inside the try
\* block.
removeViaWorker_toast ==
  /\ mounted /\ rev = "toast" /\ confirmOpen /\ ~savingText
  /\ calls < callBudget /\ calls' = calls + 1
  /\ IF confirmId = <<>>
       THEN UNCHANGED <<msgVars, savingText, removeVars>>
     ELSE IF WORKER_BASE_URL = <<>>
       THEN /\ Show(SetError(ClearMsgs(Msgs),
                             <<T("VITE_WORKER_BASE_URL is not set")>>))
            /\ UNCHANGED <<savingText, removeVars>>
     ELSE /\ savingText' = TRUE
          /\ Show(ClearMsgs(Msgs))
          /\ removePc' = "jwt"
          /\ removeId' = confirmId
          /\ UNCHANGED removeFetch
  /\ UNCHANGED <<cfgVars, pageVars, routeVars, logoutVars,
                 cancelAsked, mounted, listVars, loads, uploadingCreate,
                 uploadingVideo, fieldErrVars, panelVars, formVars, editVars,
                 createVars, replaceVars, saveVars>>

\* removeViaWorker after `await getJwtOrThrow()`: fetch() is called.
removeViaWorker_jwt(o) ==
  /\ removePc = "jwt"
  /\ LET r == getJwtOrThrow(o) IN
         IF r.ok
           THEN /\ removeFetch' = <<NewFetch("delete-post", r.jwt, [id |-> removeId[1]])>>
                /\ removePc' = "fetch"
                /\ UNCHANGED <<msgVars, savingText, removeId>>
           ELSE /\ Show(SetError(Msgs, MessageOr(r.message, "Delete failed")))
                /\ savingText' = FALSE
                /\ removePc' = "idle"
                /\ removeId' = <<>>
                /\ UNCHANGED removeFetch
  /\ UNCHANGED <<cfgVars, pageVars, routeVars, logoutVars,
                 cancelAsked, calls, mounted, listVars, loads, uploadingCreate,
                 uploadingVideo, fieldErrVars, panelVars, formVars, editVars,
                 createVars, replaceVars, saveVars>>

\* removeViaWorker after `await fetch(...)` and `await res.json()`: an Error
\* goes to catch and finally; otherwise load() (the toast revision closes
\* the dialog first).
removeViaWorker_response(o) ==
  /\ removePc = "fetch"
  /\ removeFetch' = <<>>
  /\ LET e == FetchError("Delete", o) IN
         IF e # NoMsg
           THEN /\ Show(SetError(Msgs, MessageOr(e, "Delete failed")))
                /\ savingText' = FALSE
                /\ removePc' = "idle"
                /\ removeId' = <<>>
                /\ UNCHANGED <<confirmOpen, confirmId, loading>>
           ELSE /\ confirmOpen' = FALSE
                /\ confirmId' = <<>>
                /\ Show(loadStart(SetSuccess(Msgs,
                          <<T("Post #"), N(removeId[1]), T(" deleted")>>)))
                /\ loading' = TRUE
                /\ removePc' = "load"
                /\ UNCHANGED <<savingText, removeId>>
  /\ UNCHANGED <<cfgVars, pageVars, routeVars, logoutVars,
                 cancelAsked, calls, mounted, rows, loads, uploadingCreate, uploadingVideo,
                 fieldErrVars, drawerOpen, formVars, editVars, createVars,
                 replaceVars, saveVars>>

\* removeViaWorker after `await load()`
removeViaWorker_read(o) ==
  /\ removePc = "load"
  /\ rows' = loadRows(o)
  /\ currentPage' = loadPage(o)
  /\ Show(loadMsgs(Msgs, o))
  /\ loading' = FALSE
  /\ savingText' = FALSE
  /\ removePc' = "idle"
  /\ removeId' = <<>>
  /\ UNCHANGED <<cfgVars, filterVars, routeVars, logoutVars,
                 cancelAsked, calls, mounted, loads, uploadingCreate, uploadingVideo,
                 fieldErrVars, panelVars, formVars, editVars, createVars,
                 replaceVars, saveVars, removeFetch>>

\* The list read of removeViaWorker answers, with any outcome.
removeViaWorker_loaded == \E o \in ReadOutcomes : removeViaWorker_read(o)

\* ----------------------------------------------------------------- teardown

\* A handler, a sign-out or a list read has an await outstanding.
SomethingPending ==
  \/ createPc # "idle" \/ replacePc # "idle" \/ savePc # "idle"
  \/ removePc # "idle" \/ loads > 0 \/ logoutPc # "idle"

\* The cleanup of the mount effect: each slot's request is aborted unless
\* there is none or it is DONE, and the continuation the abort resolves runs
\* and calls the state setters of the torn-down component.  The submit
\* buttons are disabled while busy, so at most one slot has a request in
\* flight.
cleanup ==
  IF InFlight(xhrRef)
    THEN /\ xhrRef' = Aborted(xhrRef)
         /\ createViaWorker_settled(onabortResult)
         /\ UNCHANGED <<rows, editFormErrors, confirmOpen, confirmId, editVars,
                        replaceVars, uploadingVideo>>
  ELSE IF InFlight(editXhrRef)
    THEN /\ editXhrRef' = Aborted(editXhrRef)
         /\ replaceVideoViaWorker_settled(onabortResult)
         /\ UNCHANGED <<rows, fieldErrVars, panelVars, formVars, editingId,
                        editTextVars, createVars, uploadingCreate>>
  ELSE UNCHANGED <<listVars, busyVars, msgVars, fieldErrVars, panelVars,
                   formVars, editVars, createVars, replaceVars>>

\* The component is unmounted.  The teardown of a component with nothing
\* outstanding leaves nothing of it to run and is not followed further.
unmount ==
  /\ mounted /\ SomethingPending
  /\ mounted' = FALSE
  /\ cleanup
  /\ UNCHANGED <<cfgVars, pageVars, routeVars, logoutVars, calls, cancelAsked, loads,
                 savingText, saveVars, removeVars>>

\* ------------------------------------------------- route guard and logout

\* ProtectedRoute renders the Admin component once its loading state is
\* false and authed is true.
Rendered(l, a) == ~l /\ a

\* ProtectedRoute renders <Navigate to="/login"> once its loading state is
\* false and authed is false: the route is left and the guard unmounted, its
\* subscription ended.
Redirected(l, a) == ~l /\ ~a

\* The guard's states become l and a, its position pc.  If that renders the
\* Admin component, its mount effect calls load() and the guard is not
\* followed further (its position and the record of its last notification
\* are dropped).
ProtectedRoute_render(pc, l, a, n) ==
  /\ guardPc' = IF Rendered(l, a) THEN "done"
                ELSE IF Redirected(l, a) THEN "left" ELSE pc
  /\ guardLoading' = l /\ authed' = a
  /\ notified' = IF Rendered(l, a) THEN "none" ELSE n
  /\ mounted' = Rendered(l, a)
  /\ loads' = IF Rendered(l, a) THEN 1 ELSE 0
  /\ UNCHANGED <<cfgVars, pageVars, logoutVars, calls, cancelAsked, listVars, busyVars,
                 msgVars, fieldErrVars, panelVars, formVars, editVars,
                 createVars, replaceVars, saveVars, removeVars>>

\* The guard's getSession() resolves to o: `.then(({ data }) => ...)` reads
\* the session and ignores the error.  The guard is followed until it has
\* rendered the Admin component.
ProtectedRoute_session(o) ==
  /\ guardPc = "session" /\ ~Rendered(guardLoading, authed)
  /\ ProtectedRoute_render("done", FALSE, o.token # <<>>, notified)

\* The guard's getSession() rejects: the promise has no rejection handler,
\* so neither setter runs.
ProtectedRoute_sessionRejected ==
  /\ guardPc = "session" /\ ~Rendered(guardLoading, authed)
  /\ guardPc' = "done"
  /\ unhandled' = unhandled \cup {"ProtectedRoute"}
  /\ UNCHANGED <<cfgVars, pageVars, guardLoading, authed, notified, logoutPc, calls,
                 cancelAsked,
                 mounted, listVars, loads, busyVars, msgVars, fieldErrVars,
                 panelVars, formVars, editVars, createVars, replaceVars,
                 saveVars, removeVars>>

\* The identity provider announces the session while the lookup is pending:
\* setAuthed(!!session), and in the toast revision's guard setLoading(false).
ProtectedRoute_onAuthStateChange(session) ==
  /\ guardPc = "session" /\ ~Rendered(guardLoading, authed)
  /\ ProtectedRoute_render("session",
                           IF rev = "toast" THEN FALSE ELSE guardLoading,
                           session # <<>>,
                           IF session # <<>> THEN "in" ELSE "out")

\* The Logout button (disabled while busy): await supabase.auth.signOut().
logout ==
  /\ mounted /\ ~isBusy
  /\ logoutPc = "idle"
  /\ calls < callBudget /\ calls' = calls + 1
  /\ logoutPc' = "signOut"
  /\ UNCHANGED <<cfgVars, pageVars, routeVars, unhandled, cancelAsked, mounted, listVars,
                 loads, busyVars, msgVars, fieldErrVars, panelVars, formVars,
                 editVars, createVars, replaceVars, saveVars, removeVars>>

\* signOut() resolves to {error: err}; logout ignores the result and leaves
\* for the login page, which takes the Admin component down.
logout_signedOut(err) ==
  /\ logoutPc = "signOut"
  /\ logoutPc' = "idle"
  /\ mounted' = FALSE
  /\ IF mounted THEN cleanup
     ELSE UNCHANGED <<listVars, busyVars, msgVars, fieldErrVars, panelVars,
                      formVars, editVars, createVars, replaceVars>>
  /\ UNCHANGED <<cfgVars, pageVars, routeVars, unhandled, calls, cancelAsked, loads,
                 savingText, saveVars, removeVars>>

\* signOut() rejects: logout has no try/catch, the rejection leaves the
\* handler and the page stays.
logout_signOutRejected ==
  /\ logoutPc = "signOut"
  /\ logoutPc' = "idle"
  /\ unhandled' = unhandled \cup {"logout"}
  /\ UNCHANGED <<cfgVars, pageVars, routeVars, calls, cancelAsked, mounted, listVars,
                 loads, busyVars, msgVars, fieldErrVars, panelVars, formVars,
                 editVars, createVars, replaceVars, saveVars, removeVars>>

\* What signOut() may resolve to.
SignOutOutcomes == {<<>>, << <<T("sign-out failed")>> >>}


\* ------------------------------------------------------------ specification

Next ==
  \/ load \/ load_resolved \/ dismissToast
  \/ onChangeCreate \/ onChangeFile \/ openDrawer \/ closeDrawer
  \/ createViaWorker \/ createViaWorker_toast
  \/ (\E o \in SessionOutcomes : createViaWorker_jwt(o))
  \/ createXhr_onprogress \/ createXhr_onerror
  \/ (\E status \in Statuses, responseText \in ResponseTexts :
        createXhr_onload(status, responseText))
  \/ cancelUpload \/ createViaWorker_loaded
  \/ startEdit \/ cancelEdit \/ onChangeEdit \/ onChangeEditFile
  \/ replaceVideoViaWorker
  \/ (\E o \in SessionOutcomes : replaceVideoViaWorker_jwt(o))
  \/ replaceXhr_onprogress \/ replaceXhr_onerror
  \/ (\E status \in Statuses, responseText \in ResponseTexts :
        replaceXhr_onload(status, responseText))
  \/ cancelEditUpload \/ replaceVideoViaWorker_loaded
  \/ saveEditViaWorker \/ saveEditViaWorker_toast
  \/ (\E o \in SessionOutcomes : saveEditViaWorker_jwt(o))
  \/ (\E o \in FetchOutcomes : saveEditViaWorker_response(o))
  \/ saveEditViaWorker_loaded
  \/ removeViaWorker \/ askDelete \/ confirmCancel \/ removeViaWorker_toast
  \/ (\E o \in SessionOutcomes : removeViaWorker_jwt(o))
  \/ (\E o \in FetchOutcomes : removeViaWorker_response(o))
  \/ removeViaWorker_loaded
  \/ unmount
  \/ (\E o \in SessionOutcomes : ProtectedRoute_session(o))
  \/ ProtectedRoute_sessionRejected
  \/ (\E session \in {<<>>, <<"jwt1">>} : ProtectedRoute_onAuthStateChange(session))
  \/ logout
  \/ (\E err \in SignOutOutcomes : logout_signedOut(err))
  \/ logout_signOutRejected

Spec == Init /\ [][Next]_vars

\* The identity provider, the transport and the list read answer.
Fairness ==
  /\ WF_vars(\E o \in SessionOutcomes : createViaWorker_jwt(o))
  /\ WF_vars(createXhr_onerror
               \/ \E status \in Statuses, responseText \in ResponseTexts :
                    createXhr_onload(status, responseText))
  /\ WF_vars(createViaWorker_loaded)
  /\ WF_vars(\E o \in SessionOutcomes : replaceVideoViaWorker_jwt(o))
  /\ WF_vars(replaceXhr_onerror
               \/ \E status \in Statuses, responseText \in ResponseTexts :
                    replaceXhr_onload(status, responseText))
  /\ WF_vars(replaceVideoViaWorker_loaded)

FairSpec == Spec /\ Fairness

\* The two upload forms alone, followed for one more handler invocation, so
\* that a second submit can meet the session of a first.
UploadsInit ==
  Constructed /\ callBudget = MaxCalls + 1 /\ WORKER_BASE_URL # <<>>

UploadsNext ==
  \/ (\E o \in SessionOutcomes : ProtectedRoute_session(o))
  \/ load_resolved
  \/ onChangeCreate \/ onChangeFile \/ openDrawer
  \/ createViaWorker \/ createViaWorker_toast
  \/ (\E o \in SessionOutcomes : createViaWorker_jwt(o))
  \/ createXhr_onprogress \/ createXhr_onerror
  \/ (\E status \in Statuses, responseText \in ResponseTexts :
        createXhr_onload(status, responseText))
  \/ cancelUpload \/ createViaWorker_loaded
  \/ startEdit \/ onChangeEditFile
  \/ replaceVideoViaWorker
  \/ (\E o \in SessionOutcomes : replaceVideoViaWorker_jwt(o))
  \/ replaceXhr_onprogress \/ replaceXhr_onerror
  \/ (\E status \in Statuses, responseText \in ResponseTexts :
        replaceXhr_onload(status, responseText))
  \/ cancelEditUpload \/ replaceVideoViaWorker_loaded
  \/ unmount

UploadsSpec == UploadsInit /\ [][UploadsNext]_vars
\* ------------------------------------------------- the route guard, alone

\* The guard followed for as long as it is mounted, with the list read of
\* the Admin component it renders.  Its states become l and a, its position
\* pc, n the last notification.  Rendering the children mounts the Admin
\* component, whose mount effect calls load(); the redirect takes the guard
\* and its children down.
ProtectedRoute_rerender(pc, l, a, n) ==
  /\ guardPc' = IF Redirected(l, a) THEN "left" ELSE pc
  /\ guardLoading' = l /\ authed' = a /\ notified' = n
  /\ mounted' = Rendered(l, a)
  /\ loads' = IF Rendered(l, a) /\ ~mounted THEN loads + 1 ELSE loads
  /\ UNCHANGED <<cfgVars, pageVars, logoutVars, calls, cancelAsked, listVars, busyVars,
                 msgVars, fieldErrVars, panelVars, formVars, editVars,
                 createVars, replaceVars, saveVars, removeVars>>

\* getSession() resolves to o, whatever was notified meanwhile:
\* setAuthed(!!data.session); setLoading(false).
ProtectedRoute_getSession_then(o) ==
  /\ guardPc = "session"
  /\ ProtectedRoute_rerender("done", FALSE, o.token # <<>>, notified)

\* getSession() rejects: no handler, no setter runs.
ProtectedRoute_getSession_rejected ==
  /\ guardPc = "session"
  /\ guardPc' = "done"
  /\ unhandled' = unhandled \cup {"ProtectedRoute"}
  /\ UNCHANGED <<cfgVars, pageVars, guardLoading, authed, notified, logoutPc, calls,
                 cancelAsked, mounted, listVars, loads, busyVars, msgVars,
                 fieldErrVars, panelVars, formVars, editVars, createVars,
                 replaceVars, saveVars, removeVars>>

\* The subscription's callback, at any time while the guard is mounted:
\* setAuthed(!!session), and in the toast revision's guard setLoading(false).
ProtectedRoute_subscription(session) ==
  /\ guardPc \in {"session", "done"}
  /\ ProtectedRoute_rerender(guardPc,
                             IF rev = "toast" THEN FALSE ELSE guardLoading,
                             session # <<>>,
                             IF session # <<>> THEN "in" ELSE "out")

GuardInit == Constructed /\ callBudget = MaxCalls

GuardNext ==
  \/ (\E o \in SessionOutcomes : ProtectedRoute_getSession_then(o))
  \/ ProtectedRoute_getSession_rejected
  \/ (\E session \in {<<>>, <<"jwt1">>} : ProtectedRoute_subscription(session))
  \/ load_resolved

GuardSpec == GuardInit /\ [][GuardNext]_vars


\* The inputs the validation functions are tried on: files of every accepted
\* type, of another type and of no type, with sizes at the unit boundaries
\* and around the limit; texts that are empty, blank, or have content.  The
\* region and season selects only offer non-empty values.
TestTypes == {"", "image/png"} \cup allowed
TestSizes == {0, 1024, 1536, MAX - 1, MAX, MAX + 1, 2 * MAX}
TestFiles == [type : TestTypes, size : TestSizes]
TestTexts == {<<>>, <<" ">>, <<"a">>, <<" ", "a", " ">>}

\* The component rendered, its list read and idle, with either the create
\* form filled in or the edit view of a post open with a file chosen.
ValidationInit ==
  /\ rev \in {"plain", "toast"}
  /\ WORKER_BASE_URL \in {<<>>, <<"https://worker">>}
  /\ callBudget = MaxCalls + 1
  /\ guardPc = "done" /\ guardLoading = FALSE /\ authed = TRUE
  /\ query = <<>> /\ regionFilter = <<"all">> /\ seasonFilter = <<"all">>
  /\ sort = [key |-> "id", direction |-> "desc"]
  /\ currentPage = 1
  /\ notified = "none"
  /\ logoutPc = "idle" /\ unhandled = {}
  /\ mounted = TRUE
  /\ calls = 0
  /\ cancelAsked = {}
  /\ loading = FALSE
  /\ loads = 0
  /\ savingText = FALSE /\ uploadingCreate = FALSE /\ uploadingVideo = FALSE
  /\ error = NoMsg /\ toastSuccess = NoMsg /\ toastError = NoMsg
  /\ formErrors = <<>> /\ editFormErrors = <<>>
  /\ confirmOpen = FALSE /\ confirmId = <<>>
  /\ region = <<"naryn">> /\ season = <<"winter">>
  /\ uploadPct = 0 /\ xhrRef = <<>>
  /\ editUploadPct = 0 /\ editXhrRef = <<>>
  /\ createPc = "idle" /\ createFd = NoFd
  /\ replacePc = "idle" /\ replaceFd = NoFd
  /\ savePc = "idle" /\ saveBody = NoFd /\ saveFetch = <<>>
  /\ removePc = "idle" /\ removeId = <<>> /\ removeFetch = <<>>
  /\ \/ /\ rows = <<>>
        /\ drawerOpen = (rev = "toast")
        /\ title \in TestTexts /\ content \in {<<" ">>, <<"a">>}
        /\ fact \in {<<>>, <<"a">>} /\ mapUrl \in {<<>>, <<"m">>}
        /\ file \in {<<>>} \cup {<<f>> : f \in TestFiles}
        /\ editingId = <<>> /\ editTitle = <<>> /\ editContent = <<>>
        /\ editVideoFile = "" /\ editRegion = <<"naryn">>
        /\ editSeason = <<"winter">> /\ editFact = <<>> /\ editMapUrl = <<>>
        /\ editFile = <<>>
     \/ /\ rows = <<Post>>
        /\ drawerOpen = FALSE
        /\ title = <<>> /\ content = <<>> /\ fact = <<>> /\ mapUrl = <<>>
        /\ file = <<>>
        /\ editingId = <<Post.id>>
        /\ editTitle = OrElse(Post.title, <<>>)
        /\ editContent = OrElse(Post.content, <<>>)
        /\ editVideoFile = Post.video_file[1]
        /\ editRegion = OrElse(Post.region, <<"naryn">>)
        /\ editSeason = OrElse(Post.season, <<"winter">>)
        /\ editFact = OrElse(Post.fact, <<>>)
        /\ editMapUrl = OrElse(Post.map_url, <<>>)
        /\ editFile \in {<<f>> : f \in TestFiles}

\* The submits, which run the validation on what the forms hold.
ValidationNext ==
  \/ createViaWorker \/ createViaWorker_toast \/ replaceVideoViaWorker

ValidationSpec == ValidationInit /\ [][ValidationNext]_vars

\* ------------------------------------------------- toast: the paged table

\* const itemsPerPage = 12
itemsPerPage == 12

\* String.prototype.toLowerCase, on the letters the posts and the search use
toLowerCase(str) ==
  [i \in 1..Len(str) |->
     IF str[i] = "A" THEN "a" ELSE IF str[i] = "B" THEN "b"
     ELSE IF str[i] = "C" THEN "c" ELSE str[i]]

\* String.prototype.includes
includes(str, q) ==
  \E i \in 0..(Len(str) - Len(q)) : SubSeq(str, i + 1, i + Len(q)) = q

\* filtered: the rows that match the search text (in the title, the content
\* or the fact, letter case apart) and the region and season filters.
\* sorted has the same rows in another order.
filteredOf(rs, search, rf, sf) ==
  LET q == toLowerCase(Trim(search)) IN
    SelectSeq(rs, LAMBDA r :
      /\ \/ q = <<>>
         \/ includes(toLowerCase(OrElse(r.title, <<>>)), q)
         \/ includes(toLowerCase(OrElse(r.content, <<>>)), q)
         \/ includes(toLowerCase(OrElse(r.fact, <<>>)), q)
      /\ rf = <<"all">> \/ OrElse(r.region, <<>>) = rf
      /\ sf = <<"all">> \/ OrElse(r.season, <<>>) = sf)

\* Math.max(1, Math.ceil(n / itemsPerPage))
pageCountOf(n) ==
  LET ceil == (n + itemsPerPage - 1) \div itemsPerPage IN
    IF ceil > 1 THEN ceil ELSE 1

pageCount ==
  pageCountOf(Len(filteredOf(rows, query, regionFilter, seasonFilter)))

\* The clamping effect, as if it never ran.
clampPage_never(p, count) == p

\* The effect on [pageCount, currentPage], run after the render that
\* follows a change: if (currentPage > pageCount) setCurrentPage(pageCount).
clampPage(p, count) == IF p > count THEN count ELSE p

\* onChange of the search box and of the two filter selects
onChangeFilter ==
  /\ mounted /\ rev = "toast"
  /\ \E q \in {<<>>, <<"a">>, <<"B">>},
        rf \in {<<"all">>, <<"naryn">>, <<"osh">>},
        sf \in {<<"all">>, <<"winter">>} :
       /\ \/ query' = q /\ UNCHANGED <<regionFilter, seasonFilter>>
          \/ regionFilter' = rf /\ UNCHANGED <<query, seasonFilter>>
          \/ seasonFilter' = sf /\ UNCHANGED <<query, regionFilter>>
       /\ currentPage' =
            clampPage(currentPage,
                      pageCountOf(Len(filteredOf(rows, query', regionFilter',
                                                 seasonFilter'))))
  /\ UNCHANGED <<cfgVars, sort, routeVars, logoutVars, calls, cancelAsked,
                 mounted, listVars, loads, busyVars, msgVars, fieldErrVars,
                 panelVars, formVars, editVars, createVars, replaceVars,
                 saveVars, removeVars>>

\* requestSort(key): a click on a column header of the table
requestSort(key) ==
  /\ mounted /\ rev = "toast" /\ ~loading
  /\ sort' = IF sort.key = key
               THEN [key |-> key,
                     direction |-> IF sort.direction = "asc" THEN "desc"
                                   ELSE "asc"]
               ELSE [key |-> key,
                     direction |-> IF key \in {"id", "created_at"} THEN "desc"
                                   ELSE "asc"]
  /\ currentPage' = clampPage(currentPage, pageCount)
  /\ UNCHANGED <<cfgVars, query, regionFilter, seasonFilter, routeVars,
                 logoutVars, calls, cancelAsked, mounted, listVars, loads,
                 busyVars, msgVars, fieldErrVars, panelVars, formVars,
                 editVars, createVars, replaceVars, saveVars, removeVars>>

\* The pager's Back button (disabled on page 1)
pagerPrev ==
  /\ mounted /\ rev = "toast" /\ ~loading /\ currentPage # 1
  /\ currentPage' =
       clampPage(IF currentPage - 1 > 1 THEN currentPage - 1 ELSE 1, pageCount)
  /\ UNCHANGED <<cfgVars, filterVars, routeVars, logoutVars, calls,
                 cancelAsked, mounted, listVars, loads, busyVars, msgVars,
                 fieldErrVars, panelVars, formVars, editVars, createVars,
                 replaceVars, saveVars, removeVars>>

\* The pager's Forward button (disabled on the last page)
pagerNext ==
  /\ mounted /\ rev = "toast" /\ ~loading /\ currentPage # pageCount
  /\ currentPage' =
       clampPage(IF currentPage + 1 < pageCount THEN currentPage + 1
                 ELSE pageCount, pageCount)
  /\ UNCHANGED <<cfgVars, filterVars, routeVars, logoutVars, calls,
                 cancelAsked, mounted, listVars, loads, busyVars, msgVars,
                 fieldErrVars, panelVars, formVars, editVars, createVars,
                 replaceVars, saveVars, removeVars>>

\* A page button: the pager shows those of the pages
\* slice(max(0, currentPage - 4), min(pageCount, currentPage + 3)).
pagerGoto(p) ==
  /\ mounted /\ rev = "toast" /\ ~loading
  /\ p > (IF currentPage - 4 > 0 THEN currentPage - 4 ELSE 0)
  /\ p <= (IF pageCount < currentPage + 3 THEN pageCount ELSE currentPage + 3)
  /\ currentPage' = clampPage(p, pageCount)
  /\ UNCHANGED <<cfgVars, filterVars, routeVars, logoutVars, calls,
                 cancelAsked, mounted, listVars, loads, busyVars, msgVars,
                 fieldErrVars, panelVars, formVars, editVars, createVars,
                 replaceVars, saveVars, removeVars>>

\* The post with id i of a longer table: the odd ones are of region naryn,
\* every third one of season winter, the first two have "A" in the title.
PagedPost(i) ==
  [Post EXCEPT !.id = i,
               !.title = IF i < 3 THEN << <<"A">> >> ELSE << <<"C">> >>,
               !.region = IF i % 2 = 1 THEN << <<"naryn">> >> ELSE <<>>,
               !.season = IF i % 3 = 0 THEN << <<"winter">> >>
                          ELSE << <<"summer">> >>]

\* The tables a read may find: none, a full page, one row more, and two
\* pages and a row; ordered by id, descending.
PagerSnapshots ==
  {[i \in 1..n |-> PagedPost(n + 1 - i)] :
     n \in {0, itemsPerPage, itemsPerPage + 1, 2 * itemsPerPage + 1}}

\* The toast revision mounted, its first list read pending.
PagerInit ==
  /\ rev = "toast"
  /\ WORKER_BASE_URL = <<"https://worker">>
  /\ callBudget = MaxCalls
  /\ guardPc = "done" /\ guardLoading = FALSE /\ authed = TRUE
  /\ notified = "none"
  /\ query = <<>> /\ regionFilter = <<"all">> /\ seasonFilter = <<"all">>
  /\ sort = [key |-> "id", direction |-> "desc"]
  /\ currentPage = 1
  /\ logoutPc = "idle" /\ unhandled = {}
  /\ mounted = TRUE
  /\ calls = 0
  /\ cancelAsked = {}
  /\ rows = <<>> /\ loading = TRUE
  /\ loads = 1
  /\ savingText = FALSE /\ uploadingCreate = FALSE /\ uploadingVideo = FALSE
  /\ error = NoMsg /\ toastSuccess = NoMsg /\ toastError = NoMsg
  /\ formErrors = <<>> /\ editFormErrors = <<>>
  /\ drawerOpen = FALSE /\ confirmOpen = FALSE /\ confirmId = <<>>
  /\ title = <<>> /\ content = <<>> /\ region = <<"naryn">>
  /\ season = <<"winter">> /\ fact = <<>> /\ mapUrl = <<>> /\ file = <<>>
  /\ uploadPct = 0 /\ xhrRef = <<>>
  /\ editingId = <<>> /\ editTitle = <<>> /\ editContent = <<>>
  /\ editVideoFile = "" /\ editRegion = <<"naryn">> /\ editSeason = <<"winter">>
  /\ editFact = <<>> /\ editMapUrl = <<>> /\ editFile = <<>>
  /\ editUploadPct = 0 /\ editXhrRef = <<>>
  /\ createPc = "idle" /\ createFd = NoFd
  /\ replacePc = "idle" /\ replaceFd = NoFd
  /\ savePc = "idle" /\ saveBody = NoFd /\ saveFetch = <<>>
  /\ removePc = "idle" /\ removeId = <<>> /\ removeFetch = <<>>

\* The list reads and what the user does with the table.
PagerNext ==
  \/ load
  \/ (\E o \in {[error |-> << <<T("read failed")>> >>, data |-> <<>>]}
               \cup {[error |-> <<>>, data |-> d] : d \in PagerSnapshots} :
        load_answered(o))
  \/ onChangeFilter
  \/ (\E key \in {"id", "created_at", "title", "region", "season"} :
        requestSort(key))
  \/ pagerPrev \/ pagerNext
  \/ (\E p \in 1..3 : pagerGoto(p))

PagerSpec == PagerInit /\ [][PagerNext]_vars

\* ------------------------------------------------------- what is displayed

\* The error the user is shown: the banner, or the error toast.
DisplayedError == IF rev = "plain" THEN error ELSE toastError

\* ---------------------------------------------------------------- claim C1

\* The response text is not empty and is not JSON.
NotJson(responseText) == responseText = "<html>"

\* C1: when a create-post or replace-video transfer completes with a status
\* in [200,300) and a non-empty body that is not JSON, the session is rejected
\* with "Invalid JSON from server": the message is displayed, the session is
\* over, and no success effect happens (the create form is not reset, the
\* shown file name is not updated, no list read starts).
C1_InvalidJsonOn2xxIsRejected ==
  [][\A status \in {st \in Statuses : st >= 200 /\ st < 300},
        responseText \in {tx \in ResponseTexts : NotJson(tx)} :
       /\ createXhr_onload(status, responseText)
            => /\ createPc' = "idle" /\ ~uploadingCreate'
               /\ DisplayedError' = <<T("Invalid JSON from server")>>
               /\ formVars' = formVars /\ loading' = loading
       /\ replaceXhr_onload(status, responseText)
            => /\ replacePc' = "idle" /\ ~uploadingVideo'
               /\ DisplayedError' = <<T("Invalid JSON from server")>>
               /\ editVideoFile' = editVideoFile /\ editFile' = editFile
               /\ loading' = loading]_vars

\* ---------------------------------------------------------------- claim C2

\* The `error` field of a response text, NoMsg when the text has none (it is
\* empty, is not JSON, or is an object without a non-empty `error`).
ErrorField(responseText) ==
  IF responseText = "{\"error\":\"role check failed\"}"
    THEN <<T("role check failed")>> ELSE NoMsg

\* The message names the HTTP status.
NamesStatus(msg, status) == \E i \in 1..Len(msg) : msg[i] = N(status)

\* What a response outside [200,300) is to surface: its `error` field, or a
\* message that names its status.
SurfacesFailure(msg, responseText, status) ==
  IF ErrorField(responseText) # NoMsg THEN msg = ErrorField(responseText)
                                      ELSE NamesStatus(msg, status)

\* C2: for each of the four mutation operations and every response body, a
\* response with a status outside [200,300) surfaces exactly the body's
\* `error` field when it has one, and otherwise a message that contains the
\* HTTP status code.
C2_FailureSurfacesErrorFieldOrStatus ==
  [][/\ \A status \in {st \in Statuses : st >= 300}, responseText \in ResponseTexts :
          /\ createXhr_onload(status, responseText)
               => SurfacesFailure(DisplayedError', responseText, status)
          /\ replaceXhr_onload(status, responseText)
               => SurfacesFailure(DisplayedError', responseText, status)
     /\ \A o \in {r \in FetchOutcomes : ~r.rejected /\ r.status >= 300} :
          /\ saveEditViaWorker_response(o)
               => SurfacesFailure(DisplayedError', o.text, o.status)
          /\ removeViaWorker_response(o)
               => SurfacesFailure(DisplayedError', o.text, o.status)]_vars

\* ---------------------------------------------------------------- claim C3

\* The create form holds a validation error: a required field is empty
\* after trimming, no file is chosen, or the file's type or size is refused.
CreateInputInvalid ==
  \/ Trim(title) = <<>> \/ Trim(content) = <<>> \/ Trim(region) = <<>>
  \/ Trim(season) = <<>> \/ Trim(fact) = <<>>
  \/ file = <<>> \/ file[1].type \notin allowed \/ file[1].size > MAX

\* The edit view's file is missing or refused.
ReplaceInputInvalid ==
  editFile = <<>> \/ editFile[1].type \notin allowed \/ editFile[1].size > MAX

\* No handler moves and no request or list read starts.
NoNetworkCall ==
  UNCHANGED <<createPc, replacePc, savePc, removePc, xhrRef, editXhrRef,
              saveFetch, removeFetch, loads, loading>>

\* C3: a create-post or replace-video submit that finds a validation error
\* makes no network call (no token lookup, no HTTP request), surfaces the
\* error, and leaves the session idle with the busy flag false.
C3_InvalidSubmitMakesNoNetworkCall ==
  [][/\ ((createViaWorker \/ createViaWorker_toast) /\ CreateInputInvalid)
          => /\ NoNetworkCall
             /\ createPc' = "idle" /\ ~uploadingCreate'
             /\ IF rev = "plain" THEN error' # NoMsg
                                 ELSE DOMAIN formErrors' # {}
     /\ (replaceVideoViaWorker /\ ReplaceInputInvalid)
          => /\ NoNetworkCall
             /\ replacePc' = "idle" /\ ~uploadingVideo'
             /\ DisplayedError' # NoMsg]_vars

\* An oversized file was submitted in an otherwise valid create form, and
\* the refusal is displayed.
C3_Witness_InvalidSubmitted ==
  /\ calls = 1 /\ WORKER_BASE_URL # <<>> /\ createPc = "idle"
  /\ Trim(title) # <<>> /\ file = <<TooBigFile>>
  /\ IF rev = "plain" THEN error = validateVideoFile(file)
                      ELSE "file" \in DOMAIN formErrors

\* ---------------------------------------------------------------- claim C4

\* What a token step with lookup outcome o does to a request slot: with a
\* token, a request is in flight carrying `Authorization: Bearer <token>`;
\* without, no request exists that did not before, and with no session the
\* message is "Not authenticated".
SendsWithTokenOf(o, before, after, pcAfter, shown) ==
  IF o.error = <<>> /\ o.token # <<>>
    THEN after # <<>> /\ after[1].auth = <<"Bearer", o.token[1]>>
    ELSE /\ after = before
         /\ pcAfter = "idle"
         /\ o.error = <<>> => shown = <<T("Not authenticated")>>

\* C4: in each of the four mutation operations a request starts only in the
\* step that looked the token up, it carries `Authorization: Bearer <token>`
\* with the token of that lookup, and with no session token the operation
\* fails with "Not authenticated" and no request is opened or sent.
C4_RequestCarriesTokenOfItsInvocation ==
  [][/\ \A o \in SessionOutcomes :
          /\ createViaWorker_jwt(o)
               => SendsWithTokenOf(o, xhrRef, xhrRef', createPc', DisplayedError')
          /\ replaceVideoViaWorker_jwt(o)
               => SendsWithTokenOf(o, editXhrRef, editXhrRef', replacePc', DisplayedError')
          /\ saveEditViaWorker_jwt(o)
               => SendsWithTokenOf(o, saveFetch, saveFetch', savePc', DisplayedError')
          /\ removeViaWorker_jwt(o)
               => SendsWithTokenOf(o, removeFetch, removeFetch', removePc', DisplayedError')
     /\ (~InFlight(xhrRef) /\ InFlight(xhrRef'))
          => \E o \in SessionOutcomes : createViaWorker_jwt(o)
     /\ (~InFlight(editXhrRef) /\ InFlight(editXhrRef'))
          => \E o \in SessionOutcomes : replaceVideoViaWorker_jwt(o)
     /\ (saveFetch = <<>> /\ saveFetch' # <<>>)
          => \E o \in SessionOutcomes : saveEditViaWorker_jwt(o)
     /\ (removeFetch = <<>> /\ removeFetch' # <<>>)
          => \E o \in SessionOutcomes : removeViaWorker_jwt(o)]_vars

\* A request is in flight with the second token.
C4_Witness_SentWithSecondToken ==
  InFlight(editXhrRef) /\ editXhrRef[1].auth = <<"Bearer", "jwt2">>

\* ---------------------------------------------------------------- claim C5

\* C5: an upload session on which the user has invoked cancel, at any point
\* after its submit passed validation (the token lookup included), does not
\* go on to succeed.
C5_CancelledSessionNeverSucceeds ==
  /\ "create" \in cancelAsked => createPc # "load"
  /\ "replace" \in cancelAsked => replacePc # "load"

\* ---------------------------------------------------------------- claim C6

\* C6: once the component is torn down, no create-post or replace-video
\* transfer is in flight, whenever in the session the teardown came.
C6_NoTransferInFlightAfterTeardown ==
  ~mounted => ~InFlight(xhrRef) /\ ~InFlight(editXhrRef)

\* ---------------------------------------------------------------- claim C7

\* C7: an upload session that passed validation ends, on every path (token
\* refused, rejected, network error, cancelled, succeeded), with its slot
\* idle again: the busy flag is set exactly while the session runs, and is
\* eventually false, provided the identity provider, the transport and the
\* list read respond.
C7_SessionReturnsToIdle ==
  /\ [](uploadingCreate <=> createPc # "idle")
  /\ [](uploadingVideo <=> replacePc # "idle")
  /\ uploadingCreate ~> ~uploadingCreate
  /\ uploadingVideo ~> ~uploadingVideo

\* A create session has run to success (the transfer is DONE and the form
\* was reset) and its slot is idle again.
C7_Witness_SessionOver ==
  /\ ~uploadingCreate /\ createPc = "idle"
  /\ xhrRef # <<>> /\ xhrRef[1].readyState = 4
  /\ title = <<>> /\ file = <<>>

\* ---------------------------------------------------------------- claim C8

\* C8: in every state where no session is active for a slot, the slot's
\* handle (xhrRef, editXhrRef) holds no transfer.
C8_IdleSlotHoldsNoTransfer ==
  /\ createPc = "idle" => xhrRef = <<>>
  /\ replacePc = "idle" => editXhrRef = <<>>

\* ---------------------------------------------------------------- claim C9

\* The edit form holds a validation error.
EditInputInvalid ==
  \/ Trim(editTitle) = <<>> \/ Trim(editContent) = <<>>
  \/ Trim(editRegion) = <<>> \/ Trim(editSeason) = <<>>
  \/ Trim(editFact) = <<>>

\* Nothing but the displayed messages changes.
OnlyMessagesChange ==
  UNCHANGED <<cfgVars, pageVars, routeVars, logoutVars,
              mounted, listVars, loads, busyVars, panelVars, formVars,
              editVars, createVars, replaceVars, saveVars, removeVars>>

\* C9: in each of the four mutation operations, a missing base address or a
\* failed input validation is detected before any network activity: no
\* token lookup, no HTTP request, and no state but the displayed error
\* changes.
C9_ConfigOrValidationFailureHasNoSideEffect ==
  [][/\ ((createViaWorker \/ createViaWorker_toast)
            /\ (WORKER_BASE_URL = <<>> \/ CreateInputInvalid))
          => OnlyMessagesChange
     /\ (replaceVideoViaWorker /\ (WORKER_BASE_URL = <<>> \/ ReplaceInputInvalid))
          => OnlyMessagesChange
     /\ ((saveEditViaWorker \/ saveEditViaWorker_toast)
            /\ (WORKER_BASE_URL = <<>> \/ EditInputInvalid))
          => OnlyMessagesChange
     /\ ((removeViaWorker \/ removeViaWorker_toast) /\ WORKER_BASE_URL = <<>>)
          => OnlyMessagesChange]_vars

\* --------------------------------------------------------------- claim C10

\* C10: with the base address missing, a create-post or replace-video
\* submit surfaces the configuration error, not a field or file error,
\* whatever the field and file inputs are.
C10_MissingConfigReportedFirst ==
  [][((createViaWorker \/ createViaWorker_toast \/ replaceVideoViaWorker)
        /\ WORKER_BASE_URL = <<>>)
       => /\ DisplayedError' = <<T("VITE_WORKER_BASE_URL is not set")>>
          /\ DOMAIN formErrors' = {}]_vars

\* --------------------------------------------------------------- claim C11

\* The string `file` field of a response text, <<>> when the text has none.
FileField(responseText) ==
  IF responseText = "{\"file\":\"clip2.mp4\"}" THEN <<"clip2.mp4">> ELSE <<>>

\* C11: on a successful replace-video response the shown video file name
\* becomes exactly the body's string `file` field, or stays as it is when the
\* body has none, and the edit fields title, content, region, season, fact
\* and map URL (and the post being edited) are left unchanged.
C11_ReplaceSuccessShowsBodyFile ==
  [][\A status \in {st \in Statuses : st >= 200 /\ st < 300},
        responseText \in ResponseTexts :
       replaceXhr_onload(status, responseText)
         => /\ editVideoFile' = IF FileField(responseText) # <<>>
                                  THEN FileField(responseText)[1]
                                  ELSE editVideoFile
            /\ editTextVars' = editTextVars
            /\ editingId' = editingId]_vars

\* A replace-video session has succeeded with a body naming the new file,
\* and the edit view shows that name next to the post's own fields.
C11_Witness_NewNameShown ==
  /\ replacePc = "load" /\ editVideoFile = "clip2.mp4"
  /\ editingId = <<Post.id>> /\ editTitle = Post.title[1]

\* --------------------------------------------------------------- claim C12

\* The fields of an update-post body and of a replace-video form.
UpdateFields ==
  {"id", "title", "content", "region", "season", "fact", "map_url", "map_region"}
ReplaceFields == {"id", "file"}

\* C12: every update-post request body has exactly the fields id, title,
\* content, region, season, fact, map_url and map_region (never video_file),
\* every replace-video request has exactly id and file, and the update-post
\* path, up to the list read it ends with, changes no row of the list.
C12_UpdateAndReplaceSendDisjointFields ==
  /\ [](/\ saveBody # NoFd => DOMAIN saveBody[1] = UpdateFields
        /\ saveFetch # <<>> => /\ saveFetch[1].op = "update-post"
                                /\ DOMAIN saveFetch[1].body = UpdateFields
        /\ replaceFd # NoFd => DOMAIN replaceFd[1] = ReplaceFields
        /\ InFlight(editXhrRef) => /\ editXhrRef[1].op = "replace-video"
                                    /\ DOMAIN editXhrRef[1].fd[1] = ReplaceFields)
  /\ [][(\/ saveEditViaWorker \/ saveEditViaWorker_toast
          \/ (\E o \in SessionOutcomes : saveEditViaWorker_jwt(o))
          \/ (\E o \in FetchOutcomes : saveEditViaWorker_response(o)))
         => rows' = rows]_vars

\* An update-post request is in flight with the trimmed text of the edit
\* form, its blank map URL sent as null.
C12_Witness_UpdateInFlight ==
  /\ saveFetch # <<>> /\ saveFetch[1].body.id = Post.id
  /\ saveFetch[1].body.content = <<"C">> /\ saveFetch[1].body.map_url = <<>>

\* --------------------------------------------------------------- claim C13

\* The state outside the confirm dialog's own (and the invocation count).
OutsideDialog ==
  <<cfgVars, cancelAsked, mounted, listVars, loads, busyVars, msgVars,
    fieldErrVars, drawerOpen, formVars, editVars, createVars, replaceVars,
    saveVars, removeVars>>

\* C13: a delete-post request for an id is issued only after the user has
\* confirmed the deletion of that id (window.confirm answered OK for the
\* row, or the dialog's confirm button pressed while it shows the id); a
\* declined or dismissed confirmation starts no token lookup and no request
\* and changes no state but the dialog's own.
C13_DeleteOnlyAfterConfirmation ==
  [][/\ \A i \in 1..Len(rows) :
          removeViaWorker_row(rows[i].id, FALSE) => UNCHANGED OutsideDialog
     /\ confirmCancel => UNCHANGED OutsideDialog
     /\ (removePc = "idle" /\ removePc' # "idle")
          => /\ removePc' = "jwt" /\ removeFetch' = <<>>
             /\ \/ \E i \in 1..Len(rows) :
                      /\ removeViaWorker_row(rows[i].id, TRUE)
                      /\ removeId' = <<rows[i].id>>
                \/ /\ removeViaWorker_toast
                   /\ confirmOpen /\ confirmId # <<>>
                   /\ removeId' = confirmId
     /\ (removePc # "idle" /\ removePc' # "idle") => removeId' = removeId
     /\ (removeFetch = <<>> /\ removeFetch' # <<>>)
          => /\ removePc = "jwt"
             /\ removeFetch'[1].op = "delete-post"
             /\ removeFetch'[1].body = [id |-> removeId[1]]]_vars

\* A delete-post request for the listed post is in flight.
C13_Witness_DeleteInFlight ==
  /\ removeFetch # <<>> /\ removeFetch[1].body.id = Post.id
  /\ removeId = <<Post.id>> /\ savingText

\* --------------------------------------------------------------- claim C14

\* The create session ends without success: the form and the chosen file
\* are as they were and no list read starts.
CreateFormKept ==
  /\ formVars' = formVars
  /\ createPc' = "idle"
  /\ loading' = loading /\ loads' = loads

Is2xx(status) == status >= 200 /\ status < 300

\* A step in which a list read answers.
ReadAnswers ==
  \/ load_resolved \/ createViaWorker_loaded \/ replaceVideoViaWorker_loaded
  \/ saveEditViaWorker_loaded \/ removeViaWorker_loaded

C16_FailedReadKeepsRows ==
  [][\A o \in {r \in ReadOutcomes : r.error # <<>>} :
       (\/ load_answered(o) \/ createViaWorker_read(o)
        \/ replaceVideoViaWorker_read(o) \/ saveEditViaWorker_read(o)
        \/ removeViaWorker_read(o))
         => /\ DisplayedError' = o.error[1]
            /\ loading' = FALSE
            /\ rows' = rows]_vars

\* A manual reload has failed with the post still listed and the failure
\* displayed.
C16_Witness_ReloadFailedRowsShown ==
  /\ mounted /\ calls = 1 /\ loads = 0 /\ ~loading /\ ~isBusy
  /\ rows = <<Post>> /\ DisplayedError = <<T("read failed")>>

\* ------------------------------------------------------------------- C17

\* C17: every failure of an operation the component starts is caught where
\* the operation is started and shown as a message: no promise rejects
\* without a handler, the guard's loading state is true only while its
\* session check is awaited, and when the sign-out or the guard's session
\* check reports an error, that error is what the user is shown.
C17_EveryFailureCaughtAndShown ==
  /\ [](unhandled = {})
  /\ [](guardLoading => guardPc = "session")
  /\ [][\A err \in SignOutOutcomes :
          err # <<>> /\ logout_signedOut(err) => DisplayedError' = err[1]]_vars
  /\ [][\A o \in SessionOutcomes :
          o.error # <<>> /\ ProtectedRoute_session(o)
            => DisplayedError' = o.error[1]]_vars

\* ------------------------------------------------------------------- C18

\* The submit controls of the two upload forms: disabled={isBusy} and
\* disabled={isBusy || !editFile}.
CreateSubmitDisabled == isBusy
ReplaceSubmitDisabled == isBusy \/ editFile = <<>>

\* C18 as stated: the two slots are independent, so a transfer in flight in
\* one slot leaves the submit control of the other usable (which is what
\* would let both be in flight at once), and no slot holds two transfers.
C18_SlotsIndependent ==
  /\ mounted /\ InFlight(editXhrRef) => ~CreateSubmitDisabled
  /\ mounted /\ InFlight(xhrRef) /\ editFile # <<>> => ~ReplaceSubmitDisabled

\* C18, amended: the slots keep separate handles, but the one busy flag
\* disables both submit controls, so transfers are never in flight in both
\* slots at once, and a slot starts a transfer only when no transfer is in
\* flight in either slot.
C18_OneTransferAtATime ==
  /\ [](~(InFlight(xhrRef) /\ InFlight(editXhrRef)))
  /\ [][\A o \in SessionOutcomes :
          createViaWorker_jwt(o) \/ replaceVideoViaWorker_jwt(o)
            => ~InFlight(xhrRef) /\ ~InFlight(editXhrRef)]_vars

\* A replace-video transfer in flight after a create-post session has run
\* and ended in the other slot.
C18_Witness_SecondTransferAfterFirst ==
  /\ calls = 2 /\ mounted
  /\ InFlight(editXhrRef)
  /\ xhrRef # <<>> /\ ~InFlight(xhrRef)

\* ------------------------------------------------------------------- C19

\* How far a handler has come: its token lookup, its request, its list read.
Rank(pc) ==
  CASE pc = "idle" -> 0 [] pc = "jwt" -> 1
    [] pc \in {"xhr", "fetch"} -> 2 [] pc = "load" -> 3

\* One step of a handler from position pc to position next: the token lookup
\* is entered from idle and in a handler invocation of the user, and the
\* handler otherwise stays, moves on or ends.
StepsOnce(pc, next) ==
  /\ next = "jwt" /\ pc # "jwt" => pc = "idle" /\ calls' = calls + 1
  /\ next # "idle" => Rank(next) >= Rank(pc)

\* A request is issued in this step: through the slot ref, or by fetch().
XhrIssued(ref, next) == InFlight(next) /\ ~InFlight(ref)
FetchIssued(f, next) == next # <<>> /\ next # f

\* C19: there is no automatic retry.  A token lookup starts only in a
\* handler invocation of the user and from the idle position; a request is
\* issued only by the step that ends that lookup; and a handler never goes
\* back to a position it has left, so after a failure, which ends it, its
\* operation issues no lookup and no request until it is invoked again.
C19_NoAutomaticRetry ==
  [][/\ StepsOnce(createPc, createPc') /\ StepsOnce(replacePc, replacePc')
     /\ StepsOnce(savePc, savePc') /\ StepsOnce(removePc, removePc')
     /\ XhrIssued(xhrRef, xhrRef') => createPc = "jwt" /\ createPc' = "xhr"
     /\ XhrIssued(editXhrRef, editXhrRef')
          => replacePc = "jwt" /\ replacePc' = "xhr"
     /\ FetchIssued(saveFetch, saveFetch')
          => savePc = "jwt" /\ savePc' = "fetch"
     /\ FetchIssued(removeFetch, removeFetch')
          => removePc = "jwt" /\ removePc' = "fetch"]_vars

\* A create-post session whose request failed: the error is shown, the form
\* is kept, the handler is idle and its request is over.
C19_Witness_FailedAndIdle ==
  /\ calls = 1 /\ createPc = "idle" /\ ~uploadingCreate
  /\ xhrRef # <<>> /\ xhrRef[1].readyState = 4
  /\ file # <<>> /\ DisplayedError # NoMsg

\* ------------------------------------------------------------------- C20

\* A progress event of the transfer in slot ref, seen at position pc with
\* the percentage going from pct to next: the session stays at its
\* transfer, and the percentage keeps its value or rises to that of the
\* chunks now sent.
ProgressObserved(pc, nextPc, ref, nextRef, pct, next) ==
  /\ pc = "xhr" /\ nextPc = "xhr" /\ InFlight(nextRef)
  /\ next >= pct
  /\ next \in {pct, Pct(nextRef[1].loaded, Chunks)}

\* The terminal notification of the transfer in slot ref: the step in which
\* the transfer ends is the step in which the handler leaves its transfer
\* position, and an ended transfer only gives way to a new one.
TerminalOnce(pc, nextPc, ref, nextRef) ==
  /\ (InFlight(ref) /\ ~InFlight(nextRef)) <=> (pc = "xhr" /\ nextPc # "xhr")
  /\ ref # <<>> /\ ~InFlight(ref) => nextRef = ref \/ InFlight(nextRef)

IsRounded(p, loaded, total) ==
  /\ 2 * p * total <= 200 * loaded + total
  /\ 200 * loaded + total < 2 * (p + 1) * total

\* C21: both percentages are integers in 0..100; a session starts with its
\* percentage at 0; a progress event whose total is known sets it to
\* round(loaded / total * 100), one whose total is unknown leaves it, and no
\* other step gives it a value other than 0.
C21_PercentageRoundedAndBounded ==
  /\ [](uploadPct \in 0..100 /\ editUploadPct \in 0..100)
  /\ [][/\ createPc = "idle" /\ createPc' = "jwt" => uploadPct' = 0
        /\ replacePc = "idle" /\ replacePc' = "jwt" => editUploadPct' = 0
        /\ createXhr_progress(TRUE)
             => IsRounded(uploadPct', xhrRef'[1].loaded, Chunks)
        /\ replaceXhr_progress(TRUE)
             => IsRounded(editUploadPct', editXhrRef'[1].loaded, Chunks)
        /\ createXhr_progress(FALSE) => uploadPct' = uploadPct
        /\ replaceXhr_progress(FALSE) => editUploadPct' = editUploadPct
        /\ uploadPct' \notin {uploadPct, 0} => createXhr_progress(TRUE)
        /\ editUploadPct' \notin {editUploadPct, 0}
             => replaceXhr_progress(TRUE)]_vars

\* A replace-video transfer whose first progress event had no known total:
\* one chunk is sent and the percentage is still 0.
C21_Witness_UnknownThenKnownTotal ==
  /\ replacePc = "xhr" /\ InFlight(editXhrRef)
  /\ editXhrRef[1].loaded = 1 /\ editUploadPct = 0

\* ------------------------------------------------------------------- C22

\* The files the forms hold.
Picked ==
  (IF file = <<>> THEN {} ELSE {file[1]})
    \cup (IF editFile = <<>> THEN {} ELSE {editFile[1]})

\* The file is of an accepted type and within the limit.
Accepted(f) ==
  /\ f.type \in {"video/mp4", "video/webm", "video/quicktime"}
  /\ f.size <= 200 * 1024 * 1024

\* The message m has the pieces of part in it, in a row.
Contains(m, part) ==
  \E i \in 1..(Len(m) - Len(part) + 1) :
    SubSeq(m, i, i + Len(part) - 1) = part

\* The create form has all its required texts.
TextsFilled ==
  /\ Trim(title) # <<>> /\ Trim(content) # <<>> /\ Trim(region) # <<>>
  /\ Trim(season) # <<>> /\ Trim(fact) # <<>>

\* C22: validateVideoFile returns "" exactly for a file of an accepted type
\* of at most 200 MiB; a file of another type gets the type message, which
\* names the type or "unknown", whatever its size; a file of an accepted type
\* over the limit gets the size message, which has the file's size and the
\* limit in human-readable form; and the create and the replace-video submit
\* go on exactly for the accepted files and show that message for the others.
C22_FileCheckByTypeThenSize ==
  /\ [](\A f \in Picked :
          LET m == validateVideoFile(<<f>>) IN
            /\ m = NoMsg <=> Accepted(f)
            /\ f.type \notin {"video/mp4", "video/webm", "video/quicktime"}
                 => /\ Contains(m, <<T(IF f.type = "" THEN "unknown"
                                       ELSE f.type)>>)
                    /\ ~Contains(m, humanFileSize(200 * 1024 * 1024))
            /\ (/\ f.type \in {"video/mp4", "video/webm", "video/quicktime"}
                /\ f.size > 200 * 1024 * 1024)
                 => /\ Contains(m, humanFileSize(f.size))
                    /\ Contains(m, humanFileSize(200 * 1024 * 1024)))
  /\ [][/\ replaceVideoViaWorker /\ WORKER_BASE_URL # <<>>
             => /\ replacePc' = "jwt" <=> Accepted(editFile[1])
                /\ ~Accepted(editFile[1])
                     => (IF rev = "plain" THEN error' ELSE toastError')
                          = validateVideoFile(editFile)
        /\ (/\ createViaWorker \/ createViaWorker_toast
            /\ WORKER_BASE_URL # <<>> /\ TextsFilled /\ file # <<>>)
             => /\ createPc' = "jwt" <=> Accepted(file[1])
                /\ ~Accepted(file[1])
                     => (IF rev = "plain" THEN error' ELSE formErrors'.file)
                          = validateVideoFile(file)]_vars

\* A file of exactly 200 MiB was submitted for replace-video and accepted.
C22_Witness_LimitFileAccepted ==
  /\ replacePc = "jwt" /\ editFile # <<>>
  /\ editFile[1].size = 200 * 1024 * 1024

\* ------------------------------------------------------------------- C23

\* The size shown beside the name of a chosen file.
ShownFileSize(f) == humanFileSize(f.size)

\* The unit a size is shown in.
ShownUnit(f) == ShownFileSize(f)[Len(ShownFileSize(f))]

\* C23 as stated: 0 bytes is shown as "0 B", 1024 as "1 KB", 1536 as
\* "1.5 KB" and 200 * 1024 * 1024 as "200 MB".
C23_SizesAsStated ==
  \A f \in Picked :
    /\ f.size = 0 => ShownFileSize(f) = <<N(0), T(" "), T("B")>>
    /\ f.size = 1024 => ShownFileSize(f) = <<N(1), T(" "), T("KB")>>
    /\ f.size = 1536
         => ShownFileSize(f) = <<N(1), T("."), N(5), T(" "), T("KB")>>
    /\ f.size = 200 * 1024 * 1024
         => ShownFileSize(f) = <<N(200), T(" "), T("MB")>>

\* C23, amended: the size is shown in the largest binary unit of B, KB, MB,
\* GB that it reaches, with no decimal place in B and exactly one in every
\* other unit: 0 bytes is "0 B", 1024 is "1.0 KB", 1536 is "1.5 KB" and
\* 200 * 1024 * 1024 is "200.0 MB".
C23_SizesWithOneDecimal ==
  \A f \in Picked :
    /\ ShownUnit(f) = T("B") <=> f.size < 1024
    /\ ShownUnit(f) = T("KB") <=> f.size >= 1024 /\ f.size < 1024 * 1024
    /\ ShownUnit(f) = T("MB")
         <=> f.size >= 1024 * 1024 /\ f.size < 1024 * 1024 * 1024
    /\ f.size = 0 => ShownFileSize(f) = <<N(0), T(" "), T("B")>>
    /\ f.size = 1024
         => ShownFileSize(f) = <<N(1), T("."), N(0), T(" "), T("KB")>>
    /\ f.size = 1536
         => ShownFileSize(f) = <<N(1), T("."), N(5), T(" "), T("KB")>>
    /\ f.size = 200 * 1024 * 1024
         => ShownFileSize(f) = <<N(200), T("."), N(0), T(" "), T("MB")>>

\* A file over the limit was submitted for replace-video: the message shown
\* gives the limit as "200.0 MB".
C23_Witness_LimitShownWithDecimal ==
  /\ calls = 1 /\ editFile # <<>>
  /\ Contains(DisplayedError,
              <<N(200), T("."), N(0), T(" "), T("MB")>>)

\* ------------------------------------------------------------------- C24

\* The create form passes every check of the form: the required texts are
\* there after trimming, a file is chosen and it is an accepted one.  (The
\* region and the season come from selects, which have no empty option.)
FormValid == TextsFilled /\ file # <<>> /\ Accepted(file[1])

\* A submit of the create form.
CreateSubmit == createViaWorker \/ createViaWorker_toast

\* What a create submit leaves for the user to read.
CreateMessages == <<error, toastError, formErrors>>

\* C24 as stated: a create submit goes on to the upload exactly when the
\* form passes the checks of the form, whatever the map URL; and a second
\* submit of the same inputs leaves the same messages.
C24_ProceedsIffFormValid ==
  [][/\ CreateSubmit => (createPc' = "jwt" <=> FormValid)
     /\ (CreateSubmit /\ calls = 1 /\ editingId = <<>>)
          => CreateMessages' = CreateMessages]_vars

\* C24, amended: with the worker's base address configured, a create submit
\* goes on to the upload exactly when the form passes the checks of the
\* form, whatever the map URL; without the address no submit goes on; and a
\* second submit of the same inputs leaves the same messages.
C24_ProceedsIffConfiguredAndFormValid ==
  [][/\ CreateSubmit
          => (createPc' = "jwt" <=> WORKER_BASE_URL # <<>> /\ FormValid)
     /\ (CreateSubmit /\ calls = 1 /\ editingId = <<>>)
          => CreateMessages' = CreateMessages]_vars

\* A valid create form with no map URL was submitted and the upload began.
C24_Witness_ProceedsWithoutMapUrl ==
  /\ calls = 1 /\ createPc = "jwt" /\ uploadingCreate
  /\ FormValid /\ Trim(mapUrl) = <<>>

\* ------------------------------------------------------------------- C25

\* The slot's reference holds no transfer in flight: there is no request,
\* or the last one is DONE (loaded, rejected, network error) or was aborted.
NoTransfer(ref) == ref = <<>> \/ ref[1].readyState \in {0, 4}

\* The state of the program: every variable but the record of the cancels
\* asked for, which the program does not have.
ProgramState ==
  <<cfgVars, pageVars, routeVars, logoutVars, calls, mounted, listVars, loads,
    busyVars, msgVars, fieldErrVars, panelVars, formVars, editVars,
    createVars, replaceVars, saveVars, removeVars>>

\* C25: a cancel that finds no transfer in flight for its slot aborts
\* nothing, shows no error and changes no state.
C25_CancelWithoutTransferIsNoOp ==
  [][/\ (cancelUpload /\ NoTransfer(xhrRef)) => UNCHANGED ProgramState
     /\ (cancelEditUpload /\ NoTransfer(editXhrRef))
          => UNCHANGED ProgramState]_vars

\* Cancel was pressed in a second create session before its transfer began,
\* the slot still holding the request of the first session, which ended by
\* a cancel.
C25_Witness_CancelAfterEarlierCancel ==
  /\ calls = 2 /\ createPc = "jwt" /\ "create" \in cancelAsked
  /\ xhrRef # <<>> /\ xhrRef[1].readyState = 0

\* ------------------------------------------------------------------- C26

\* C26: while the component shows a create-post or a replace-video session
\* with its busy flag set, the Cancel button of that session is there to
\* press, whatever the percentage and whatever panels were opened or closed.
C26_CancelAvailableWhileUploading ==
  mounted => /\ uploadingCreate => CancelUploadShown
             /\ uploadingVideo => CancelEditUploadShown

\* ------------------------------------------------------------------- C27

\* C27: while an update-post or a replace-video request is in flight the
\* post being edited is the one whose id the request carries; no step
\* changes or closes it but the update's own success, which closes the view
\* of that post; and a replace-video success puts its new file name into
\* the view of the post it was sent for.
C27_EditedPostFixedWhileInFlight ==
  /\ [](/\ InFlight(editXhrRef) => editingId = <<editXhrRef[1].fd[1].id>>
        /\ saveFetch # <<>> => editingId = <<saveFetch[1].body.id>>)
  /\ [][/\ ((InFlight(editXhrRef) \/ saveFetch # <<>>)
             /\ editingId' # editingId)
             => /\ \E o \in FetchOutcomes : saveEditViaWorker_response(o)
                /\ savePc' = "load" /\ editingId' = <<>>
        /\ (replacePc = "xhr" /\ replacePc' = "load")
             => /\ editingId' = <<replaceFd[1].id>>
                /\ editingId' = editingId]_vars

\* An update-post request has succeeded and closed the edit view of the post
\* whose id it carried.
C27_Witness_UpdateClosedItsView ==
  /\ savePc = "load" /\ saveBody # NoFd /\ saveBody[1].id = Post.id
  /\ ~isEditing /\ saveFetch = <<>>

\* ------------------------------------------------------------------- C28

\* A handler passes from its request to the list read it ends with: the
\* request has succeeded.
Succeeded(pc, next) == pc \in {"xhr", "fetch"} /\ next = "load"

\* The list read a handler ends with has succeeded and the handler is done.
FinishedAfterRead ==
  \E o \in {r \in ReadOutcomes : r.error = <<>>} :
    \/ createViaWorker_read(o) \/ replaceVideoViaWorker_read(o)
    \/ saveEditViaWorker_read(o) \/ removeViaWorker_read(o)

\* C28: in the toast revision a create, update, delete or replace-video that
\* succeeds has its success message set when the handler goes on to the
\* list read, and the handler's end after a successful read leaves it set.
C28_SuccessMessageOutlivesHandler ==
  [][rev = "toast"
       => /\ (\/ Succeeded(createPc, createPc')
               \/ Succeeded(replacePc, replacePc')
               \/ Succeeded(savePc, savePc')
               \/ Succeeded(removePc, removePc')) => toastSuccess' # NoMsg
          /\ FinishedAfterRead => toastSuccess' = toastSuccess]_vars

\* ------------------------------------------------------------------- C29

\* C29: the guard renders its children only after an observation of the
\* session has arrived (the getSession() result or a notification) and only
\* with its loading state false and authed true; and while the last
\* notification delivered carried no session the children are not
\* rendered, in whatever order the getSession() result and the
\* notifications arrive.
C29_ChildrenOnlyWhileSignedIn ==
  /\ mounted => /\ guardPc # "session" \/ notified # "none"
                /\ ~guardLoading /\ authed
  /\ notified = "out" => ~mounted

\* ------------------------------------------------------------------- C30

\* The pages the filtered rows need, twelve to a page, and one at least.
PagesNeeded ==
  LET n == Len(filteredOf(rows, query, regionFilter, seasonFilter)) IN
    CHOOSE k \in 1..(n + 1) : (k = 1 \/ 12 * (k - 1) < n) /\ n <= 12 * k

\* C30: in the paged revision, after any list loads, search and filter
\* changes, sort requests and pager clicks, the current page is at least 1
\* and at most the number of pages the filtered rows need; and every list
\* read that succeeds puts the current page back to 1.
C30_CurrentPageWithinPages ==
  /\ [](currentPage >= 1 /\ currentPage <= PagesNeeded)
  /\ [][\A d \in PagerSnapshots :
          load_answered([error |-> <<>>, data |-> d]) => currentPage' = 1]_vars

\* The table had three pages and the last was shown; the region filter left
\* thirteen rows, and the page shown is now the second and last.
C30_Witness_ClampedToLastPage ==
  /\ Len(rows) = 25 /\ regionFilter = <<"naryn">>
  /\ query = <<>> /\ seasonFilter = <<"all">>
  /\ PagesNeeded = 2 /\ currentPage = 2

====
